---- MODULE Spec2Model ----
(***************************************************************************)
(* PLS Command Center (POPVOX/pls-sandbox).                                *)
(*                                                                         *)
(* A model of the regex-based Pattern Extractor (app/server.js             *)
(* extractFallback and its client copy extractLegislationFallback in       *)
(* app/src/services/aiService.js), of the POST /api/extract and            *)
(* POST /api/chat relay handlers and of the wizard's extraction and chat   *)
(* state.                                                                  *)
(*                                                                         *)
(* A JavaScript string is a sequence of one-character strings; the bullet  *)
(* character U+2022 is the element "<bullet>".  Other JavaScript values    *)
(* are records tagged by their type.                                       *)
(***************************************************************************)
EXTENDS Integers, Sequences, FiniteSets, TLC

VARIABLES
    \* ---- the Pattern Extractor called as a function
    fnText,      \* argument text
    fnFilename,  \* argument filename (a string, undefined or null)
    fnServer,    \* outcome of extractFallback(fnText, fnFilename), or "pending"
    fnClient,    \* outcome of extractLegislationFallback(fnText, fnFilename), or "pending"
    fnContent,   \* the user message /api/extract builds from fnText, or "pending"
    \* ---- extractTextFromDocument called as a function
    docFile,     \* file.name
    docReaders,  \* the readers invoked, in order
    docResult,   \* what the call settled with, or "pending"
    \* ---- the relay: one POST /api/extract request
    reqText,        \* req.body.text
    reqFilename,    \* req.body.filename
    apiKey,         \* whether ANTHROPIC_API_KEY is configured
    pc,             \* where the handler is
    upstream,       \* what the upstream call came to
    responses,      \* the responses sent for the request, in order
    upstreamCalls,  \* the number of fetch calls to the model endpoint
    upstreamRequests, \* the user message of each fetch call, in order
    extractorCalls, \* the number of calls of extractFallback
    \* ---- the context merge called as a function
    mergePrev,  \* the context before the merge
    mergeData,  \* extractedData
    mergeOut,   \* the context after the merge, or "pending"
    \* ---- the wizard: document upload and extraction (aiService.js 127-175)
    context,             \* the wizard context
    monitoring,          \* monitoring, its reviewClauses field
    uploadedFile,        \* the uploaded File, or null
    documentText,
    documentInfo,
    isExtracting,
    extractionComplete,
    extractionError,     \* a message (a string), or null
    extractionStatus,
    extractionMethod,    \* "ai", "fallback", or null
    serverStatus,        \* what checkServerHealth resolved to, 'checking' before
    extractions,         \* the calls of extractLegislationDetails that have not ended
    \* ---- the wizard: chat (aiService.js 178-194)
    chatMessages,      \* the transcript
    chatInput,
    isChatLoading,
    chatDocumentText,
    chatUploads,       \* the calls of handleChatFileUpload awaiting the file's text
    chatRequests,      \* the /api/chat requests that have not settled
    \* ---- the relay: one POST /api/chat request (apiKey is shared)
    reqMessages,      \* req.body.messages
    reqDocumentText,  \* req.body.documentText
    reqContext,       \* req.body.context
    chatPc,           \* where the handler is
    chatUpstream,     \* what the upstream call came to
    chatResponses,    \* the responses sent for the request, in order
    chatFetches       \* the bodies of the fetch calls to the model endpoint

docVars == <<docFile, docReaders, docResult>>
fnVars == <<fnText, fnFilename, fnServer, fnClient, fnContent, docVars>>
relayVars ==
    <<reqText, reqFilename, apiKey, pc, upstream, responses, upstreamCalls, upstreamRequests,
      extractorCalls>>
mergeVars == <<mergePrev, mergeData, mergeOut>>
uploadVars ==
    <<context, monitoring, uploadedFile, documentText, documentInfo, isExtracting,
      extractionComplete, extractionError, extractionStatus, extractionMethod,
      serverStatus, extractions>>
chatVars ==
    <<chatMessages, chatInput, isChatLoading, chatDocumentText, chatUploads, chatRequests>>
uiVars == <<mergeVars, uploadVars, chatVars>>
chatRelayVars ==
    <<reqMessages, reqDocumentText, reqContext, chatPc, chatUpstream, chatResponses,
      chatFetches>>
vars == <<fnVars, relayVars, uiVars, chatRelayVars>>

----------------------------------------------------------------------------
(* JavaScript values *)

JsUndefined == [type |-> "undefined"]
JsNull == [type |-> "null"]
JsString(s) == [type |-> "string", chars |-> s]
JsNumber(n) == [type |-> "number", num |-> n]
JsObject(f) == [type |-> "object", fields |-> f]
\* a raised exception, as the outcome of a call
Throw(e) == [type |-> "throw", error |-> e]

IsString(v) == v.type = "string"

\* the characters of a TLA+ string, as a JavaScript string
Chars(s) == [i \in 1..Len(s) |-> SubSeq(s, i, i)]

Min(S) == CHOOSE x \in S : \A y \in S : x <= y
\* the greatest element, found as the least of the negated set
Max(S) == 0 - Min({0 - x : x \in S})

----------------------------------------------------------------------------
(* Character classes of the regular expressions *)

UpperLetters == Chars("ABCDEFGHIJKLMNOPQRSTUVWXYZ")
LowerLetters == Chars("abcdefghijklmnopqrstuvwxyz")
Upper == {UpperLetters[i] : i \in 1..Len(UpperLetters)}
Lower == {LowerLetters[i] : i \in 1..Len(LowerLetters)}
Digit == {"0", "1", "2", "3", "4", "5", "6", "7", "8", "9"}
\* \w
WordChar == Upper \cup Lower \cup Digit \cup {"_"}
\* \s, and what String.prototype.trim removes
WhiteSpace == {" ", "\t", "\n", "\r", "\f"}
Bullet == "<bullet>"

ToLowerMap == [c \in Upper |-> LowerLetters[CHOOSE i \in 1..Len(UpperLetters) : UpperLetters[i] = c]]
ToUpperMap == [c \in Lower |-> UpperLetters[CHOOSE i \in 1..Len(LowerLetters) : LowerLetters[i] = c]]
toLowerCase(c) == IF c \in Upper THEN ToLowerMap[c] ELSE c
toUpperCase(c) == IF c \in Lower THEN ToUpperMap[c] ELSE c

\* String.prototype.substring(a, b) with 0 <= a <= b, 0-based, b exclusive
substring(s, a, b) == SubSeq(s, a + 1, IF b > Len(s) THEN Len(s) ELSE b)

\* s between the least and the greatest index of the set ink
Between(s, ink) == IF ink = {} THEN <<>> ELSE SubSeq(s, Min(ink), Max(ink))

\* String.prototype.trim
trim(s) == Between(s, {i \in 1..Len(s) : s[i] \notin WhiteSpace})

\* .replace(/\s+/g, ' '): every maximal run of whitespace becomes one space
RECURSIVE CollapseRange(_, _, _)
CollapseRange(s, lo, hi) ==
    IF lo > hi THEN <<>>
    ELSE IF lo = hi
         THEN IF s[lo] \notin WhiteSpace THEN <<s[lo]>>
              ELSE IF lo > 1 /\ s[lo - 1] \in WhiteSpace THEN <<>> ELSE <<" ">>
         ELSE CollapseRange(s, lo, (lo + hi) \div 2)
                 \o CollapseRange(s, (lo + hi) \div 2 + 1, hi)
collapseWhitespace(s) == CollapseRange(s, 1, Len(s))

\* a case-insensitive literal kw (given in lower case) matches text at index i
LitAt(text, i, kw) ==
    /\ i >= 1
    /\ i + Len(kw) - 1 <= Len(text)
    /\ \A k \in 1..Len(kw) : toLowerCase(text[i + k - 1]) = kw[k]

\* the number of indices from i up to the least index of the set stop
RunTo(text, i, stop) == IF stop = {} THEN Len(text) - i + 1 ELSE Min(stop) - i

\* the length of the maximal run of characters of class C that starts at index i
RunLen(text, i, C) == RunTo(text, i, {j \in i..Len(text) : text[j] \notin C})

\* the length of the maximal run of characters outside C that starts at index i
RunLenNot(text, i, C) == RunTo(text, i, {j \in i..Len(text) : text[j] \in C})

\* s before the least index of the set m, all of s when m is empty
Before(s, m) == IF m = {} THEN s ELSE SubSeq(s, 1, Min(m) - 1)

\* m[1] of a match, '' of null
GroupOrEmpty(m) == IF m # <<>> THEN m[1] ELSE <<>>

----------------------------------------------------------------------------
(* Title: server.js 139-151, aiService.js 57-69 *)

\* .replace(/\.[^/.]+$/, ''): drop a final extension
stripExtension(f) ==
    Before(f, {i \in 1..Len(f) :
                  /\ f[i] = "."
                  /\ i < Len(f)
                  /\ \A j \in (i + 1)..Len(f) : f[j] \notin {"/", "."}})

\* the name with its '-' and '_' kept
dashesKept(f) == f

\* .replace(/[-_]/g, ' ')
dashesToSpaces(f) == [i \in 1..Len(f) |-> IF f[i] \in {"-", "_"} THEN " " ELSE f[i]]

\* .replace(/([a-z])([A-Z])/g, '$1 $2')
RECURSIVE CamelRange(_, _, _)
CamelRange(f, lo, hi) ==
    IF lo > hi THEN <<>>
    ELSE IF lo = hi
         THEN IF lo > 1 /\ f[lo - 1] \in Lower /\ f[lo] \in Upper
              THEN <<" ", f[lo]>>
              ELSE <<f[lo]>>
         ELSE CamelRange(f, lo, (lo + hi) \div 2) \o CamelRange(f, (lo + hi) \div 2 + 1, hi)
splitCamelCase(f) == CamelRange(f, 1, Len(f))

\* .split(' '): the words between single spaces (empty words included)
RECURSIVE split(_)
SplitAt(s, sp) ==
    IF sp = {} THEN <<s>>
    ELSE <<SubSeq(s, 1, Min(sp) - 1)>> \o split(SubSeq(s, Min(sp) + 1, Len(s)))
split(s) == SplitAt(s, {i \in 1..Len(s) : s[i] = " "})

\* word => word.charAt(0).toUpperCase() + word.slice(1)
titleCaseWordKeepRest(w) == [i \in 1..Len(w) |-> IF i = 1 THEN toUpperCase(w[i]) ELSE w[i]]

\* word => word.charAt(0).toUpperCase() + word.slice(1).toLowerCase()
titleCaseWord(w) ==
    [i \in 1..Len(w) |-> IF i = 1 THEN toUpperCase(w[i]) ELSE toLowerCase(w[i])]

\* .join(' ')
RECURSIVE join(_)
join(ws) ==
    IF Len(ws) = 0 THEN <<>>
    ELSE IF Len(ws) = 1 THEN ws[1]
    ELSE ws[1] \o <<" ">> \o join(Tail(ws))

\* .map(word => ...).join(' ')
TitleCaseWords(ws) == join([i \in 1..Len(ws) |-> titleCaseWord(ws[i])])

titleFromFilename(f) ==
    TitleCaseWords(split(splitCamelCase(dashesToSpaces(stripExtension(f)))))

\* the alternatives of (?:AN? (?:ACT|BILL|LAW)|TITLE), in lower case
TitleKeywords ==
    {Chars("an act"), Chars("an bill"), Chars("an law"),
     Chars("a act"), Chars("a bill"), Chars("a law"), Chars("title")}

\* the last index of the line that index c is on ([^\n]+ is greedy)
LineEnd(text, c) == c + RunLenNot(text, c, {"\n"}) - 1

\* the length of the keyword among kws (at most one matches at an index)
KeywordLen(kws) == IF kws = {} THEN 0 ELSE Len(CHOOSE kw \in kws : TRUE)

MaxOrZero(S) == IF S = {} THEN 0 ELSE Max(S)

\* where group 1 starts after a keyword that ends before index e and a run
\* of r characters of [:\s].  [:\s]+ is greedy; it gives characters back
\* only when it ran to the end of the text, so that [^\n]+ has one.
TitleCaptureFrom(text, e, r) ==
    IF r = 0 THEN 0
    ELSE IF e + r <= Len(text) THEN e + r
    ELSE MaxOrZero({c \in (e + 1)..Len(text) : text[c] # "\n"})

TitleCaptureAfter(text, k, n) ==
    IF n = 0 THEN 0
    ELSE TitleCaptureFrom(text, k + n, RunLen(text, k + n, WhiteSpace \cup {":"}))

\* where group 1 starts when the keyword starts at index k, 0 when the
\* pattern does not match there
TitleCaptureStart(text, k) ==
    TitleCaptureAfter(text, k, KeywordLen({kw \in TitleKeywords : LitAt(text, k, kw)}))

\* the rest of the line from index c on, as a match
LineFrom(text, c) == <<SubSeq(text, c, LineEnd(text, c))>>

TitleCaptureAmong(text, ok) ==
    IF ok = {} THEN <<>> ELSE LineFrom(text, TitleCaptureStart(text, Min(ok)))

\* (?:^|\n): the keyword starts at index 1 or right after a newline
TitleStarts(text) == {1} \cup {i + 1 : i \in {j \in 1..Len(text) : text[j] = "\n"}}

\* text.match(/(?:^|\n)(?:AN? (?:ACT|BILL|LAW)|TITLE)[:\s]+([^\n]+)/i):
\* group 1 of the leftmost match as <<capture>>, or <<>> for null
titleMatch(text) ==
    TitleCaptureAmong(text, {k \in TitleStarts(text) : TitleCaptureStart(text, k) # 0})

\* if (titleMatch) legislationTitle = titleMatch[1].trim()
TitleOr(m, filename) == IF m # <<>> THEN trim(m[1]) ELSE titleFromFilename(filename)

legislationTitleOf(text, filename) == TitleOr(titleMatch(text), filename)

----------------------------------------------------------------------------
(* Year: server.js 153-155, aiService.js 71-73 *)

\* \b between index i - 1 and index i
\* a boundary between a digit and a non-digit instead of \b
DigitBoundary(text, i) ==
    (i - 1 >= 1 /\ i - 1 <= Len(text) /\ text[i - 1] \in Digit)
        # (i >= 1 /\ i <= Len(text) /\ text[i] \in Digit)

WordBoundary(text, i) ==
    (i - 1 >= 1 /\ i - 1 <= Len(text) /\ text[i - 1] \in WordChar)
        # (i >= 1 /\ i <= Len(text) /\ text[i] \in WordChar)

\* the last match instead of the first
FourFromLast(text, m) == IF m = {} THEN <<>> ELSE <<SubSeq(text, Max(m), Max(m) + 3)>>

FourFrom(text, m) == IF m = {} THEN <<>> ELSE <<SubSeq(text, Min(m), Min(m) + 3)>>

\* text.match(/\b(19|20)\d{2}\b/): the match as <<m>>, or <<>> for null
yearMatch(text) ==
    FourFrom(text, {i \in 1..(Len(text) - 3) :
                       /\ WordBoundary(text, i)
                       /\ \/ text[i] = "1" /\ text[i + 1] = "9"
                          \/ text[i] = "2" /\ text[i + 1] = "0"
                       /\ text[i + 2] \in Digit
                       /\ text[i + 3] \in Digit
                       /\ WordBoundary(text, i + 4)})

\* yearMatch ? yearMatch[0] : ''
legislationYearOf(text) == GroupOrEmpty(yearMatch(text))

----------------------------------------------------------------------------
(* Summary: server.js 157-165, aiService.js 75-83 *)

SummaryMinCapture == 100
SummaryMaxCapture == 500
SummaryMaxLength == 300
FirstParaWindow == 500

\* the keyword ends (index after the keyword) of
\* (?:purpose|summary|overview|objects?) at index s, in the order tried
SummaryKeywordEnds(text, s) ==
    IF LitAt(text, s, Chars("purpose")) THEN <<s + 7>>
    ELSE IF LitAt(text, s, Chars("summary")) THEN <<s + 7>>
    ELSE IF LitAt(text, s, Chars("overview")) THEN <<s + 8>>
    ELSE IF LitAt(text, s, Chars("objects")) THEN <<s + 7, s + 6>>
    ELSE IF LitAt(text, s, Chars("object")) THEN <<s + 6>>
    ELSE <<>>

\* (?:\n\n|\n[A-Z]) under the i flag, at index t
SummaryTerminator(text, t) ==
    /\ t + 1 <= Len(text)
    /\ text[t] = "\n"
    /\ text[t + 1] = "\n" \/ text[t + 1] \in Upper \cup Lower

\* the lengths n of a capture starting at index q that a terminator follows
SummaryLengths(text, q) ==
    {n \in SummaryMinCapture..SummaryMaxCapture : SummaryTerminator(text, q + n)}

SummaryBest(text, qs) ==
    IF qs = {} THEN <<>> ELSE <<Max(qs), Min(SummaryLengths(text, Max(qs)))>>

\* [:\s]*\n? is greedy: it gives back one character at a time, so the
\* capture starts at the largest index of e..e+run that admits a length,
\* and ([\s\S]{100,500}?) is lazy: it takes the least such length.
\* <<q, n>>, or <<>> when nothing matches after the keyword end e.
SummaryCaptureAfter(text, e) ==
    SummaryBest(text, {q \in e..(e + RunLen(text, e, WhiteSpace \cup {":"})) :
                          SummaryLengths(text, q) # {}})

SummaryPick(text, ends, ok) ==
    IF ok = {} THEN <<>> ELSE SummaryCaptureAfter(text, ends[Min(ok)])

SummaryFirstEnd(text, ends) ==
    SummaryPick(text, ends,
                {k \in 1..Len(ends) : SummaryCaptureAfter(text, ends[k]) # <<>>})

\* the capture of a match whose keyword starts at index s, or <<>>
SummaryCaptureAt(text, s) == SummaryFirstEnd(text, SummaryKeywordEnds(text, s))

\* the span <<q, n>> of text, as a match
Span(text, c) == <<SubSeq(text, c[1], c[1] + c[2] - 1)>>

SummaryLeftmost(text, ok) ==
    IF ok = {} THEN <<>> ELSE Span(text, SummaryCaptureAt(text, Min(ok)))

\* text.match(/(?:purpose|summary|overview|objects?)[:\s]*\n?([\s\S]{100,500}?)(?:\n\n|\n[A-Z])/i):
\* group 1 of the leftmost match as <<capture>>, or <<>> for null
summaryMatch(text) ==
    SummaryLeftmost(text, {s \in 1..Len(text) : SummaryCaptureAt(text, s) # <<>>})

\* .split(/\n\n/)[0]
FirstSegment(w) == Before(w, {i \in 1..(Len(w) - 1) : w[i] = "\n" /\ w[i + 1] = "\n"})

\* text.substring(0, 500).split(/\n\n/)[0]
firstPara(text) == FirstSegment(substring(text, 0, FirstParaWindow))

\* the summary without the .substring(0, 300) of the matched branch
SummaryFromUncut(text, m) ==
    IF m # <<>>
    THEN collapseWhitespace(trim(m[1]))
    ELSE trim(collapseWhitespace(firstPara(text)))

SummaryFrom(text, m) ==
    IF m # <<>>
    THEN substring(collapseWhitespace(trim(m[1])), 0, SummaryMaxLength)
    ELSE trim(collapseWhitespace(firstPara(text)))

legislationSummaryOf(text) == SummaryFrom(text, summaryMatch(text))

----------------------------------------------------------------------------
(* Objectives: server.js 167-172, aiService.js 85-90 *)

\* [•\-\d\(]
BulletClass == {Bullet, "-", "("} \cup Digit

\* the keyword ends of (?:objectives?|aims?|purposes?) at index s, in the order tried
ObjectivesKeywordEnds(text, s) ==
    IF LitAt(text, s, Chars("objectives")) THEN <<s + 10, s + 9>>
    ELSE IF LitAt(text, s, Chars("objective")) THEN <<s + 9>>
    ELSE IF LitAt(text, s, Chars("aims")) THEN <<s + 4, s + 3>>
    ELSE IF LitAt(text, s, Chars("aim")) THEN <<s + 3>>
    ELSE IF LitAt(text, s, Chars("purposes")) THEN <<s + 8, s + 7>>
    ELSE IF LitAt(text, s, Chars("purpose")) THEN <<s + 7>>
    ELSE <<>>

\* one [•\-\d\(][^\n]+ can start at index q
BulletLineAt(text, q) ==
    /\ q + 1 <= Len(text)
    /\ text[q] \in BulletClass
    /\ text[q + 1] # "\n"

\* the last index of the block (?:[•\-\d\(][^\n]+\n?)+ that starts at index q:
\* `next` is the index after the line at q and its optional newline
RECURSIVE BulletBlockEnd(_, _)
BulletBlockNext(text, next) ==
    IF BulletLineAt(text, next) THEN BulletBlockEnd(text, next) ELSE next - 1
BulletBlockAfterLine(text, le) ==
    BulletBlockNext(text, IF le + 1 <= Len(text) THEN le + 2 ELSE le + 1)
BulletBlockEnd(text, q) == BulletBlockAfterLine(text, LineEnd(text, q + 1))

\* where the block starts after the keyword end e, 0 when there is none
ObjectivesBlockAfter(text, e) ==
    MaxOrZero({q \in e..(e + RunLen(text, e, WhiteSpace \cup {":"})) : BulletLineAt(text, q)})

ObjectivesPick(text, ends, ok) ==
    IF ok = {} THEN 0 ELSE ObjectivesBlockAfter(text, ends[Min(ok)])

ObjectivesFirstEnd(text, ends) ==
    ObjectivesPick(text, ends, {k \in 1..Len(ends) : ObjectivesBlockAfter(text, ends[k]) # 0})

ObjectivesBlockAt(text, s) == ObjectivesFirstEnd(text, ObjectivesKeywordEnds(text, s))

BlockFrom(text, q) == <<SubSeq(text, q, BulletBlockEnd(text, q))>>

ObjectivesLeftmost(text, ok) ==
    IF ok = {} THEN <<>> ELSE BlockFrom(text, ObjectivesBlockAt(text, Min(ok)))

\* text.match(/(?:objectives?|aims?|purposes?)[:\s]*\n?((?:[•\-\d\(][^\n]+\n?)+)/i):
\* group 1 of the leftmost match as <<capture>>, or <<>> for null
objectivesMatch(text) ==
    ObjectivesLeftmost(text, {s \in 1..Len(text) : ObjectivesBlockAt(text, s) # 0})

\* if (objectivesMatch) primaryObjectives = objectivesMatch[1].trim()
primaryObjectivesOf(text) == trim(GroupOrEmpty(objectivesMatch(text)))

----------------------------------------------------------------------------
(* Agencies: server.js 174-180, aiService.js 92-98 *)

AgencyTail == 50
AgencyLimit == 5

AgencyKeywords ==
    <<Chars("minister"), Chars("ministry"), Chars("department"), Chars("agency"),
      Chars("authority"), Chars("commission"), Chars("board"), Chars("office")>>

FirstKeywordLen(ks) == IF ks = {} THEN 0 ELSE Len(AgencyKeywords[Min(ks)])

\* the length of the keyword that matches at index i, 0 when none does
AgencyKeywordLen(text, i) ==
    FirstKeywordLen({k \in 1..Len(AgencyKeywords) : LitAt(text, i, AgencyKeywords[k])})

\* text.match(/(?:minister|...|office)[^,\n]{0,50}/gi) from index pos on:
\* the successive non-overlapping matches
RECURSIVE agencyMatchesFrom(_, _)
AgencyMatchTo(text, i, end) == <<SubSeq(text, i, end - 1)>> \o agencyMatchesFrom(text, end)
AgencyMatchTail(text, i, e, t) ==
    AgencyMatchTo(text, i, e + (IF t > AgencyTail THEN AgencyTail ELSE t))
AgencyMatchAt(text, i) ==
    AgencyMatchTail(text, i, i + AgencyKeywordLen(text, i),
                    RunLenNot(text, i + AgencyKeywordLen(text, i), {",", "\n"}))
AgencyFirstHit(text, hits) == IF hits = {} THEN <<>> ELSE AgencyMatchAt(text, Min(hits))
agencyMatchesFrom(text, pos) ==
    AgencyFirstHit(text, {i \in pos..Len(text) : AgencyKeywordLen(text, i) # 0})

agencyMatches(text) == agencyMatchesFrom(text, 1)

\* the elements of list at the indices of the set first, in order
AtIndices(list, first) ==
    [k \in 1..Cardinality(first) |->
        list[CHOOSE i \in first : Cardinality({j \in first : j <= i}) = k]]

\* the list itself, duplicates kept
uniqueInOrderKeepAll(list) == list

\* [...new Set(list)]: the first occurrence of each element, in order
uniqueInOrder(list) ==
    AtIndices(list, {i \in 1..Len(list) : \A j \in 1..(i - 1) : list[j] # list[i]})

\* .slice(0, n)
slice(list, n) == SubSeq(list, 1, IF Len(list) < n THEN Len(list) ELSE n)

\* .join(', ')
RECURSIVE joinComma(_)
joinComma(list) ==
    IF Len(list) = 0 THEN <<>>
    ELSE IF Len(list) = 1 THEN list[1]
    ELSE list[1] \o <<",", " ">> \o joinComma(Tail(list))

\* agencyMatches.map(a => a.trim())
TrimAll(ms) == [i \in 1..Len(ms) |-> trim(ms[i])]

\* [...new Set(agencyMatches.map(a => a.trim()))].slice(0, 5)
uniqueAgencies(ms) == slice(uniqueInOrder(TrimAll(ms)), AgencyLimit)

\* if (agencyMatches) implementingAgencies = uniqueAgencies.join(', ')
AgenciesFrom(ms) == IF ms # <<>> THEN joinComma(uniqueAgencies(ms)) ELSE <<>>

implementingAgenciesOf(text) == AgenciesFrom(agencyMatches(text))

----------------------------------------------------------------------------
(* The returned record: server.js 182-193, aiService.js 100-112 *)

DefaultSummary ==
    Chars("This legislation establishes a framework for governance in its designated policy area.")
DefaultObjectives ==
    <<Bullet>> \o Chars(" To be extracted from the document\n") \o
    <<Bullet>> \o Chars(" Review the full text for specific objectives")
DefaultAgencies == Chars("Relevant government ministries and agencies")
DefaultFilename == Chars("document.txt")

\* a alone, without the `|| b`
OrElseNothing(a, b) == a

\* a || b on strings: the empty string is falsy
OrElse(a, b) == IF a # <<>> THEN a ELSE b

\* the record with `yearMatch ? yearMatch[0] : null` for the year
extractedFieldsNullYear(text, filename) ==
    [legislationTitle |-> JsString(legislationTitleOf(text, filename)),
     legislationYear |-> IF yearMatch(text) = <<>> THEN JsNull ELSE JsString(legislationYearOf(text)),
     legislationSummary |-> JsString(OrElse(legislationSummaryOf(text), DefaultSummary)),
     primaryObjectives |-> JsString(OrElse(primaryObjectivesOf(text), DefaultObjectives)),
     implementingAgencies |-> JsString(OrElse(implementingAgenciesOf(text), DefaultAgencies)),
     suggestedCountry |-> JsString(<<>>),
     jurisdictionLevel |-> JsString(Chars("national")),
     parliamentType |-> JsString(<<>>),
     keyProvisions |-> JsString(<<>>),
     reviewClauses |-> JsString(<<>>)]

extractedFields(text, filename) ==
    [legislationTitle |-> JsString(legislationTitleOf(text, filename)),
     legislationYear |-> JsString(legislationYearOf(text)),
     legislationSummary |-> JsString(OrElse(legislationSummaryOf(text), DefaultSummary)),
     primaryObjectives |-> JsString(OrElse(primaryObjectivesOf(text), DefaultObjectives)),
     implementingAgencies |-> JsString(OrElse(implementingAgenciesOf(text), DefaultAgencies)),
     suggestedCountry |-> JsString(<<>>),
     jurisdictionLevel |-> JsString(Chars("national")),
     parliamentType |-> JsString(<<>>),
     keyProvisions |-> JsString(<<>>),
     reviewClauses |-> JsString(<<>>)]

\* extractFallback reading titleMatch[1] without the `if (titleMatch)` guard
extractFallbackUnguarded(text, filename) ==
    LET fname == IF filename = JsUndefined THEN JsString(DefaultFilename) ELSE filename
    IN  IF ~IsString(fname) \/ ~IsString(text) THEN Throw("TypeError")
        ELSE IF titleMatch(text.chars) = <<>> THEN Throw("TypeError")
        ELSE JsObject(extractedFields(text.chars, fname.chars))

\* server.js: function extractFallback(text, filename = 'document.txt').
\* filename.replace raises on a non-string, then text.match does.
extractFallback(text, filename) ==
    LET fname == IF filename = JsUndefined THEN JsString(DefaultFilename) ELSE filename
    IN  IF ~IsString(fname) \/ ~IsString(text) THEN Throw("TypeError")
        ELSE JsObject(extractedFields(text.chars, fname.chars))

\* a client copy that returns null for a missing year
extractLegislationFallbackNullYear(text, filename) ==
    IF ~IsString(filename) \/ ~IsString(text) THEN Throw("TypeError")
    ELSE JsObject(extractedFieldsNullYear(text.chars, filename.chars) @@ ("_method" :> JsString(Chars("fallback"))))

\* aiService.js: export function extractLegislationFallback(text, filename)
extractLegislationFallback(text, filename) ==
    IF ~IsString(filename) \/ ~IsString(text) THEN Throw("TypeError")
    ELSE JsObject(extractedFields(text.chars, filename.chars) @@ ("_method" :> JsString(Chars("fallback"))))

----------------------------------------------------------------------------
(* The Pattern Extractor called as a function *)

Rep(c, n) == [i \in 1..n |-> c]

\* how far the filler of the sample texts goes past a threshold of the code
Slack == 3

CleanAirText ==
    Chars("THE CLEAN AIR ACT\n\nPurpose: to reduce emissions by 2030.\n\nThe Ministry of Environment shall enforce this Act.")
DataProtectionText ==
    Chars("Preamble\nAN ACT: The Data Protection Act\nenacted in 1998 under the authority of the Board, and the Board")
LoremText == Chars("Lorem ipsum dolor sit amet")
RoomText == Chars("in room 1999A")
EmptyTitleText == Chars("TITLE:  ")
\* a purpose section whose span is shorter than the cut
PurposeText ==
    Chars("Summary:\n") \o Rep("a", SummaryMinCapture + Slack) \o Chars("  b\n\nnext 2001")
\* a purpose section whose span is longer than the cut
LongPurposeText ==
    Chars("Overview ") \o Rep("w", SummaryMaxLength + Slack) \o Chars("\nEnd")
\* no section, and more text than the first-paragraph window
LongPlainText == Rep("x", FirstParaWindow + Slack) \o Chars(" tail")
\* a summary section whose captured span is whitespace only
BlankSummaryText == Chars("Summary") \o Rep("\n", SummaryMinCapture + Slack)
ObjectivesText ==
    Chars("Objectives:\n- reduce harm\n(2) report yearly\nnot a bullet\n") \o
    Chars("Ministry of Health, Ministry of Health, Agency A, Board B, Office C,") \o
    Chars("Commission D, Department E, Ministry of Health")

\* year-like digit runs inside a longer number, before a letter, after an
\* underscore, and two that stand alone
YearsText == Chars("ref 12020 in room 1999A, x_2010 of 2005 and 2011")

\* a title line with nothing after the keyword and the colon
TitleGapText == Chars("Preface\nAn Act: \nSection 1 of 2004")

FnTexts ==
    {<<>>, CleanAirText, DataProtectionText, LoremText, RoomText, EmptyTitleText,
     PurposeText, LongPurposeText, LongPlainText, ObjectivesText, YearsText, TitleGapText,
     BlankSummaryText}

FnFilenames ==
    {JsUndefined, JsNull, JsString(DefaultFilename), JsString(<<>>),
     JsString(Chars("community-empowermentAct.txt")), JsString(Chars("clean-air.txt")),
     JsString(Chars("my_file v2.final.PDF")), JsString(Chars("READ_me\tfirst.TXT"))}

Pending == [type |-> "pending"]

NoUpstream == [kind |-> "none", reply |-> <<>>]

\* no request is being handled
RelayIdle ==
    /\ reqText = JsUndefined
    /\ reqFilename = JsUndefined
    /\ apiKey = FALSE
    /\ pc = "idle"
    /\ upstream = NoUpstream
    /\ responses = <<>>
    /\ upstreamCalls = 0
    /\ upstreamRequests = <<>>
    /\ extractorCalls = 0

\* no chat request is being handled
ChatRelayIdle ==
    /\ reqMessages = JsUndefined
    /\ reqDocumentText = JsUndefined
    /\ reqContext = JsUndefined
    /\ chatPc = "idle"
    /\ chatUpstream = NoUpstream
    /\ chatResponses = <<>>
    /\ chatFetches = <<>>

\* extractTextFromDocument is not being called
ParserIdle ==
    /\ docFile = <<>>
    /\ docReaders = <<>>
    /\ docResult = [type |-> "idle"]

\* the function is not being called
ExtractorIdle ==
    /\ fnText = JsUndefined
    /\ fnFilename = JsUndefined
    /\ fnServer = Pending
    /\ fnClient = Pending
    /\ fnContent = Pending
    /\ ParserIdle

\* the fields of the wizard context (aiService.js 127-136)
ContextFields ==
    {"country", "jurisdiction", "parliamentType", "legislationTitle", "legislationYear",
     "legislationSummary", "primaryObjectives", "implementingAgencies"}

\* useState({country: '', ...}) (aiService.js 127-136)
InitialContext == [f \in ContextFields |-> JsString(<<>>)]

\* the message the transcript starts with (aiService.js 178-190)
WelcomeMessage == [role |-> "assistant", content |-> "Welcome"]

\* the merge is not being called
MergeIdle ==
    /\ mergePrev = InitialContext
    /\ mergeData = <<>>
    /\ mergeOut = Pending

\* the upload panel as the component mounts (aiService.js 127-175)
UploadMounted ==
    /\ context = InitialContext
    /\ monitoring = [reviewClauses |-> JsString(<<>>)]
    /\ uploadedFile = JsNull
    /\ documentText = JsString(<<>>)
    /\ documentInfo = JsNull
    /\ isExtracting = FALSE
    /\ extractionComplete = FALSE
    /\ extractionError = JsNull
    /\ extractionStatus = ""
    /\ extractionMethod = JsNull
    /\ serverStatus = [status |-> "checking", aiConfigured |-> FALSE]
    /\ extractions = <<>>

\* the chat as the component mounts (aiService.js 178-194)
ChatMounted ==
    /\ chatMessages = <<WelcomeMessage>>
    /\ chatInput = ""
    /\ isChatLoading = FALSE
    /\ chatDocumentText = JsString(<<>>)
    /\ chatUploads = <<>>
    /\ chatRequests = <<>>

InitExtractor ==
    /\ fnText \in {JsString(t) : t \in FnTexts}
    /\ fnFilename \in FnFilenames
    /\ fnServer = Pending
    /\ fnClient = Pending
    /\ fnContent = Pending
    /\ ParserIdle
    /\ RelayIdle
    /\ MergeIdle
    /\ UploadMounted
    /\ ChatMounted
    /\ ChatRelayIdle

\* extractFallback(text, filename) is called
CallExtractFallback ==
    /\ fnServer = Pending
    /\ fnServer' = extractFallback(fnText, fnFilename)
    /\ UNCHANGED <<fnText, fnFilename, fnClient, fnContent, docVars, relayVars, uiVars, chatRelayVars>>

\* extractLegislationFallback(text, filename) is called
CallExtractLegislationFallback ==
    /\ fnClient = Pending
    /\ fnClient' = extractLegislationFallback(fnText, fnFilename)
    /\ UNCHANGED <<fnText, fnFilename, fnServer, fnContent, docVars, relayVars, uiVars, chatRelayVars>>

NextExtractor == CallExtractFallback \/ CallExtractLegislationFallback

SpecExtractor == InitExtractor /\ [][NextExtractor]_vars

----------------------------------------------------------------------------
(* Claims about the Pattern Extractor as a function *)

ResultFields ==
    {"legislationTitle", "legislationYear", "legislationSummary", "primaryObjectives",
     "implementingAgencies", "suggestedCountry", "jurisdictionLevel", "parliamentType",
     "keyProvisions", "reviewClauses"}

AllStrings(o) == \A f \in DOMAIN o.fields : IsString(o.fields[f])

\* C1: for every string text and every string filename, extractFallback and
\* extractLegislationFallback return a record and do not raise.
C1_ExtractorTotal ==
    (IsString(fnText) /\ IsString(fnFilename)) =>
        /\ fnServer # Pending => fnServer.type = "object"
        /\ fnClient # Pending => fnClient.type = "object"

\* both copies have returned for the empty text and a string filename
C1_Witness ==
    /\ fnText = JsString(<<>>)
    /\ IsString(fnFilename)
    /\ fnServer.type = "object"
    /\ fnClient.type = "object"

\* C8 as stated: all eleven fields, _method among them, are present and
\* strings in the record of the server copy and of the client copy.
C8_AllElevenFieldsBothCopies ==
    /\ fnServer.type = "object" =>
          DOMAIN fnServer.fields = ResultFields \cup {"_method"} /\ AllStrings(fnServer)
    /\ fnClient.type = "object" =>
          DOMAIN fnClient.fields = ResultFields \cup {"_method"} /\ AllStrings(fnClient)

\* C8 amended: the ten extracted fields are present and strings in both
\* copies; _method is a field of the client copy's record only, where it is
\* the string "fallback".
C8_FieldsPresentAndStrings ==
    /\ fnServer.type = "object" =>
          DOMAIN fnServer.fields = ResultFields /\ AllStrings(fnServer)
    /\ fnClient.type = "object" =>
          /\ DOMAIN fnClient.fields = ResultFields \cup {"_method"}
          /\ AllStrings(fnClient)
          /\ fnClient.fields["_method"] = JsString(Chars("fallback"))

\* both copies have returned a record for a text with no year in it
C8_Witness ==
    /\ fnText = JsString(LoremText)
    /\ fnServer.type = "object"
    /\ fnClient.type = "object"

\* C9: with filename absent, each copy returns what it returns for
\* "document.txt" and does not raise.
C9_AbsentFilenameIsDocumentTxt ==
    fnFilename = JsUndefined =>
        /\ fnServer # Pending => fnServer = extractFallback(fnText, JsString(DefaultFilename))
        /\ fnClient # Pending =>
              fnClient = extractLegislationFallback(fnText, JsString(DefaultFilename))

----------------------------------------------------------------------------
(* The relay: app.post('/api/extract'), server.js 55-135 *)

MinTextLength == 50
\* the longest reply of the model endpoint that is explored
MaxReplyLen == 3

\* !v
Falsy(v) ==
    \/ v.type \in {"undefined", "null"}
    \/ IsString(v) /\ v.chars = <<>>
    \/ v.type = "number" /\ v.num = 0

\* `!text || text.trim().length < MinTextLength` without trimming
validateTextNoTrim(text) ==
    IF Falsy(text) THEN "reject"
    ELSE IF ~IsString(text) THEN "throw"
    ELSE IF Len(text.chars) < MinTextLength THEN "reject"
    ELSE "accept"

\* if (!text || text.trim().length < 50): text.trim raises on a non-string
validateText(text) ==
    IF Falsy(text) THEN "reject"
    ELSE IF ~IsString(text) THEN "throw"
    ELSE IF Len(trim(text.chars)) < MinTextLength THEN "reject"
    ELSE "accept"

\* A reply of the model: "{" and "}" are themselves, "m" is the text of one
\* member ("legislationYear": "2023"), "x" is any other character.
ReplyChars == {"{", "}", "m", "x"}
Replies == UNION {[1..n -> ReplyChars] : n \in 0..MaxReplyLen}

\* content.match(/\{[\s\S]*\}/): [\s\S]* is greedy, so the match runs from
\* the first "{" to the last "}".  <<match>>, or <<>> for null
FirstToLast(content, open, close) ==
    IF open = {} \/ close = {} THEN <<>>
    ELSE IF Max(close) < Min(open) THEN <<>>
    ELSE <<SubSeq(content, Min(open), Max(close))>>

jsonMatch(content) ==
    FirstToLast(content, {i \in 1..Len(content) : content[i] = "{"},
                {i \in 1..Len(content) : content[i] = "}"})

\* JSON.parse of a span that starts with "{" and ends with "}"
JSONparse(span) ==
    IF span = <<"{", "}">> THEN JsObject(<<>>)
    ELSE IF span = <<"{", "m", "}">>
         THEN JsObject([legislationYear |-> JsString(Chars("2023"))])
    ELSE Throw("SyntaxError")

\* what `await response.json()` of a success response resolves to, or that
\* it rejects ("badBody"): no content array, an empty one, a first block
\* with no text, or a first block whose text is a reply
UpstreamBodies ==
    {[kind |-> k, reply |-> <<>>] : k \in {"badBody", "noContent", "emptyContent", "noText"}}
    \cup {[kind |-> "text", reply |-> r] : r \in Replies}

ValidationError == [status |-> 400, error |-> "Document text is too short for analysis"]

FallbackEnvelope(data) ==
    [status |-> 200, success |-> TRUE, method |-> "fallback", data |-> data]

\* FallbackWarning with the data left out
FallbackWarningNoData(data, message) ==
    [status |-> 200, success |-> TRUE, method |-> "fallback", warning |-> message]

FallbackWarning(data, message) ==
    [status |-> 200, success |-> TRUE, method |-> "fallback", data |-> data,
     warning |-> message]
AiEnvelope(data) == [status |-> 200, success |-> TRUE, method |-> "ai", data |-> data]

\* a catch block that answers with an error instead of falling back
CatchBlockError500(r, message, calls) ==
    /\ extractorCalls' = extractorCalls + calls
    /\ pc' = "done"
    /\ responses' = Append(responses, [status |-> 500, error |-> message])

\* catch (error): the fallback with error.message as warning, after `calls`
\* calls of extractFallback in the try block; r is what
\* extractFallback(req.body.text, req.body.filename) returns or raises.
\* When it raises, the handler's promise rejects and nothing is sent.
CatchBlock(r, message, calls) ==
    /\ extractorCalls' = extractorCalls + calls + 1
    /\ IF r.type = "throw"
       THEN pc' = "rejected" /\ UNCHANGED responses
       ELSE /\ pc' = "done"
            /\ responses' = Append(responses, FallbackWarning(r, message))

\* return res.json({... data: extractFallback(text, filename) ...}) in the
\* try block; r is what extractFallback(text, filename) returns or raises,
\* which is what the call in the catch block returns or raises as well
SendFallback(r, hasWarning) ==
    IF r.type = "throw" THEN CatchBlock(r, "TypeError", 1)
    ELSE /\ extractorCalls' = extractorCalls + 1
         /\ pc' = "done"
         /\ responses' = Append(responses,
                IF hasWarning
                THEN FallbackWarning(r, "AI extraction failed, used pattern matching")
                ELSE FallbackEnvelope(r))

\* text.substring(0, 15000) and the length test of the notice
TruncateAt == 15000

TruncationNotice == Chars("\n\n[Document truncated due to length...]")

\* the user message without the notice
userContentNoNotice(text) ==
    [document |-> substring(text, 0, TruncateAt), notice |-> <<>>]

\* the two interpolations of the user message's template (server.js 90):
\* ${text.substring(0, 15000)} and
\* ${text.length > 15000 ? '\n\n[Document truncated due to length...]' : ''}
userContent(text) ==
    [document |-> substring(text, 0, TruncateAt),
     notice |-> IF Len(text) > TruncateAt THEN TruncationNotice ELSE <<>>]

\* server.js 59-94 for the outcome v of the validation
Validated(v, r) ==
    IF v = "reject"
    THEN /\ responses' = Append(responses, ValidationError)
         /\ pc' = "done"
         /\ UNCHANGED <<upstreamCalls, upstreamRequests, extractorCalls>>
    ELSE IF v = "throw"
    THEN CatchBlock(r, "TypeError", 0) /\ UNCHANGED <<upstreamCalls, upstreamRequests>>
    ELSE IF ~apiKey
    THEN SendFallback(r, FALSE) /\ UNCHANGED <<upstreamCalls, upstreamRequests>>
    ELSE /\ upstreamCalls' = upstreamCalls + 1
         /\ upstreamRequests' = Append(upstreamRequests, userContent(reqText.chars))
         /\ pc' = "awaitFetch"
         /\ UNCHANGED <<responses, extractorCalls>>

\* the handler runs up to its first await: the validation, the credential
\* check, and the fetch call
HandleExtract ==
    /\ pc = "start"
    /\ Validated(validateText(reqText), extractFallback(reqText, reqFilename))
    /\ UNCHANGED <<fnVars, chatRelayVars, uiVars, reqText, reqFilename, apiKey, upstream>>

\* await fetch(...) rejects: a network failure
FetchRejects ==
    /\ pc = "awaitFetch"
    /\ upstream' = [kind |-> "networkError", reply |-> <<>>]
    /\ CatchBlock(extractFallback(reqText, reqFilename), "fetch failed", 0)
    /\ UNCHANGED <<fnVars, chatRelayVars, uiVars, reqText, reqFilename, apiKey, upstreamCalls,
                   upstreamRequests>>

\* await fetch(...) resolves with a response; response.ok is tested
FetchResolves ==
    /\ pc = "awaitFetch"
    /\ \E ok \in BOOLEAN :
          /\ pc' = IF ok THEN "awaitBody" ELSE "awaitErrorBody"
          /\ upstream' = [kind |-> IF ok THEN "ok" ELSE "errorStatus", reply |-> <<>>]
    /\ UNCHANGED <<fnVars, chatRelayVars, uiVars, reqText, reqFilename, apiKey, responses, upstreamCalls,
                   upstreamRequests,
                   extractorCalls>>

\* server.js 96-107 once the error body has settled
ErrorBodySettled(parsed, r) ==
    IF parsed
    THEN SendFallback(r, TRUE) /\ UNCHANGED upstream
    ELSE /\ upstream' = [kind |-> "errorStatusBadBody", reply |-> <<>>]
         /\ CatchBlock(r, "SyntaxError", 0)

\* if (!response.ok): await response.json() settles
ErrorBodySettles ==
    /\ pc = "awaitErrorBody"
    /\ \E parsed \in BOOLEAN :
          ErrorBodySettled(parsed, extractFallback(reqText, reqFilename))
    /\ UNCHANGED <<fnVars, chatRelayVars, uiVars, reqText, reqFilename, apiKey, upstreamCalls,
                   upstreamRequests>>

\* JSON.parse(jsonMatch[0]) of a match, the Error of line 122 of null
ParseMatch(m) ==
    IF m = <<>> THEN Throw("Could not parse AI response as JSON") ELSE JSONparse(m[1])

\* server.js 109-123: what the try block makes of a settled body, the
\* parsed object or the error raised
parseBody(body) ==
    IF body.kind = "badBody" THEN Throw("SyntaxError")
    ELSE IF body.kind # "text" THEN Throw("TypeError")
    ELSE ParseMatch(jsonMatch(body.reply))

\* server.js 109-134 once response.json() has settled
BodySettled(extractedData, r) ==
    IF extractedData.type = "throw" THEN CatchBlock(r, extractedData.error, 0)
    ELSE /\ responses' = Append(responses, AiEnvelope(extractedData))
         /\ pc' = "done"
         /\ UNCHANGED extractorCalls

\* const data = await response.json() settles; data.content[0].text, the
\* match and JSON.parse follow
BodySettles ==
    /\ pc = "awaitBody"
    /\ \E body \in UpstreamBodies :
          /\ upstream' = body
          /\ BodySettled(parseBody(body), extractFallback(reqText, reqFilename))
    /\ UNCHANGED <<fnVars, chatRelayVars, uiVars, reqText, reqFilename, apiKey, upstreamCalls,
                   upstreamRequests>>

\* exactly MinTextLength characters after trimming
BoundaryText == Chars(" \n") \o Rep("y", MinTextLength) \o Chars("\t ")
\* one character short after trimming, though longer before it
PaddedShortText == Rep(" ", Slack) \o Rep("y", MinTextLength - 1) \o Rep("\n", Slack)

RelayTexts ==
    {JsUndefined, JsNull, JsNumber(0), JsNumber(7), JsString(<<>>), JsString(LoremText),
     JsString(PaddedShortText), JsString(BoundaryText), JsString(CleanAirText)}
RelayFilenames == {JsUndefined, JsNull, JsString(Chars("clean-air.txt"))}

InitRelay ==
    /\ reqText \in RelayTexts
    /\ reqFilename \in RelayFilenames
    /\ apiKey \in BOOLEAN
    /\ pc = "start"
    /\ upstream = NoUpstream
    /\ responses = <<>>
    /\ upstreamCalls = 0
    /\ upstreamRequests = <<>>
    /\ extractorCalls = 0
    /\ ExtractorIdle
    /\ MergeIdle
    /\ UploadMounted
    /\ ChatMounted
    /\ ChatRelayIdle

NextRelay ==
    \/ HandleExtract
    \/ FetchRejects
    \/ FetchResolves
    \/ ErrorBodySettles
    \/ BodySettles

SpecRelay == InitRelay /\ [][NextRelay]_vars

----------------------------------------------------------------------------
(* Claims about the relay *)

\* the handler has run to its end: it has answered, or its promise has
\* rejected without an answer
Finished == pc \in {"done", "rejected"}

\* text is a string of at least MinTextLength characters after trimming and
\* filename is a string or absent
WellFormedRequest ==
    /\ IsString(reqText)
    /\ validateText(reqText) = "accept"
    /\ reqFilename = JsUndefined \/ IsString(reqFilename)

\* the upstream call was not made for lack of a credential, or it failed:
\* network error, non-success status, a body that is not the expected JSON,
\* a reply with no {...} span, or a span that does not parse
UpstreamFailed ==
    \/ ~apiKey
    \/ upstream.kind \in {"networkError", "errorStatus", "errorStatusBadBody"}
    \/ upstream \in UpstreamBodies /\ parseBody(upstream).type = "throw"

IsSuccessEnvelope(resp) ==
    /\ {"status", "success", "method", "data"} \subseteq DOMAIN resp
    /\ resp.status = 200
    /\ resp.success = TRUE
    /\ resp.method \in {"ai", "fallback"}
    /\ resp.data.type = "object"

IsFallbackOf(resp, data) ==
    /\ IsSuccessEnvelope(resp)
    /\ resp.method = "fallback"
    /\ resp.data = data

\* C2: when the request passes the validation and the upstream call fails in
\* any way (no credential, network error, non-success status, reply with no
\* JSON object, reply with unparsable JSON), the handler answers once, with
\* method "fallback" and with data equal to what extractFallback returns for
\* the same (text, filename).
C2_FailureYieldsFallback ==
    (/\ Finished
     /\ validateText(reqText) = "accept"
     /\ UpstreamFailed
     /\ extractFallback(reqText, reqFilename).type = "object")
        => /\ Len(responses) = 1
           /\ IsFallbackOf(responses[1], extractFallback(reqText, reqFilename))

\* the upstream replied with braces around text that is not JSON, and the
\* handler has answered with the fallback
C2_Witness ==
    /\ pc = "done"
    /\ apiKey
    /\ reqText = JsString(CleanAirText)
    /\ upstream = [kind |-> "text", reply |-> <<"{", "x", "}">>]
    /\ Len(responses) = 1
    /\ responses[1].method = "fallback"

\* C3: for a request whose text is a string of at least 50 characters after
\* trimming and whose filename is a string or absent, whatever the upstream
\* does, the handler never ends unanswered, never sends a second response,
\* and what it sends is a success envelope with method "ai" or "fallback"
\* and data.
C3_AlwaysOneSuccessEnvelope ==
    WellFormedRequest =>
        /\ pc # "rejected"
        /\ Len(responses) <= 1
        /\ Len(responses) = 1 <=> pc = "done"
        /\ \A k \in 1..Len(responses) : IsSuccessEnvelope(responses[k])

\* a well-formed request with no filename has been answered after the
\* fetch failed
C3_Witness ==
    /\ WellFormedRequest
    /\ reqFilename = JsUndefined
    /\ upstream.kind = "networkError"
    /\ pc = "done"
    /\ Len(responses) = 1

\* text is missing, or shorter than MinTextLength characters after trimming
TextTooShort ==
    \/ Falsy(reqText)
    \/ IsString(reqText) /\ Len(trim(reqText.chars)) < MinTextLength

\* C4: when text is missing or shorter than 50 characters after trimming,
\* the only response is the validation error with status 400, and neither
\* the upstream endpoint nor extractFallback is called, with or without a
\* credential.
C4_ShortTextRejected ==
    TextTooShort =>
        /\ upstreamCalls = 0
        /\ extractorCalls = 0
        /\ pc \in {"start", "done"}
        /\ pc = "start" => responses = <<>>
        /\ pc = "done" => responses = <<ValidationError>>

\* a text that is long enough only before trimming has been rejected while
\* a credential is configured
C4_Witness ==
    /\ reqText = JsString(PaddedShortText)
    /\ apiKey
    /\ pc = "done"
    /\ responses = <<ValidationError>>

\* the index of the "}" that brings the count of open braces to zero,
\* scanning from index i with `depth` braces open; 0 when there is none
RECURSIVE ClosingBrace(_, _, _)
ClosingBrace(content, i, depth) ==
    IF i > Len(content) THEN 0
    ELSE IF content[i] = "{" THEN ClosingBrace(content, i + 1, depth + 1)
    ELSE IF content[i] = "}"
         THEN IF depth = 1 THEN i ELSE ClosingBrace(content, i + 1, depth - 1)
    ELSE ClosingBrace(content, i + 1, depth)

SpanTo(content, start, end) == IF end = 0 THEN <<>> ELSE <<SubSeq(content, start, end)>>

SpanFrom(content, open) ==
    IF open = {} THEN <<>>
    ELSE SpanTo(content, Min(open), ClosingBrace(content, Min(open) + 1, 1))

\* the first top-level {...} span of a reply: from the first "{" to the "}"
\* that closes it, as <<span>>, or <<>> when there is none
FirstTopLevelSpan(content) ==
    SpanFrom(content, {i \in 1..Len(content) : content[i] = "{"})

\* C10: when the first top-level {...} span of the reply is a JSON object,
\* the handler answers with method "ai" and that object as data, whatever
\* follows the span in the reply.
C10_FirstTopLevelSpanIsParsed ==
    (/\ pc = "done"
     /\ upstream.kind = "text"
     /\ FirstTopLevelSpan(upstream.reply) # <<>>
     /\ JSONparse(GroupOrEmpty(FirstTopLevelSpan(upstream.reply))).type = "object")
        => responses = <<AiEnvelope(JSONparse(GroupOrEmpty(FirstTopLevelSpan(upstream.reply))))>>

----------------------------------------------------------------------------
(* The merge of extractedData into the context: aiService.js 508-518 *)

\* the field of extractedData each context field is merged from
SourceOf ==
    [legislationTitle |-> "legislationTitle",
     legislationYear |-> "legislationYear",
     legislationSummary |-> "legislationSummary",
     primaryObjectives |-> "primaryObjectives",
     implementingAgencies |-> "implementingAgencies",
     country |-> "suggestedCountry",
     jurisdiction |-> "jurisdictionLevel",
     parliamentType |-> "parliamentType"]

\* o.f of an object given by its fields: undefined when o has no field f
Field(o, f) == IF f \in DOMAIN o THEN o[f] ELSE JsUndefined

\* a || b
Or(a, b) == IF Falsy(a) THEN b ELSE a

\* a merge in which the extracted value wins for every field
MergeContextExtractedWins(prev, extractedData) ==
    [f \in DOMAIN prev |-> Or(Field(extractedData, SourceOf[f]), prev[f])]

\* prev => ({...prev, legislationTitle: extractedData.legislationTitle || prev.legislationTitle, ...})
MergeContext(prev, extractedData) ==
    [prev EXCEPT
        !.legislationTitle = Or(Field(extractedData, "legislationTitle"), prev.legislationTitle),
        !.legislationYear = Or(Field(extractedData, "legislationYear"), prev.legislationYear),
        !.legislationSummary =
            Or(Field(extractedData, "legislationSummary"), prev.legislationSummary),
        !.primaryObjectives =
            Or(Field(extractedData, "primaryObjectives"), prev.primaryObjectives),
        !.implementingAgencies =
            Or(Field(extractedData, "implementingAgencies"), prev.implementingAgencies),
        !.country = Or(Or(prev.country, Field(extractedData, "suggestedCountry")), JsString(<<>>)),
        !.jurisdiction =
            Or(Or(Field(extractedData, "jurisdictionLevel"), prev.jurisdiction),
               JsString(Chars("national"))),
        !.parliamentType = Or(Field(extractedData, "parliamentType"), prev.parliamentType)]

\* the sets of fields given a value differ from none or from all of the
\* fields in at most this many fields
MaxMixed == 1

FieldSets ==
    {S \in SUBSET ContextFields :
        \/ Cardinality(S) <= MaxMixed
        \/ Cardinality(ContextFields \ S) <= MaxMixed}

OldValue == JsString(Chars("old"))
NewValue == JsString(Chars("new"))

\* the contexts in which the fields of one of the sets have a value
PrevContexts ==
    {[f \in ContextFields |-> IF f \in S THEN OldValue ELSE JsString(<<>>)] : S \in FieldSets}

\* the extracted records in which the sources of one of the sets have a
\* value, and the other fields are absent, null, or the empty string
ExtractedDatas ==
    {[g \in {SourceOf[f] : f \in S} |-> NewValue] : S \in FieldSets}
    \cup {[g \in {SourceOf[f] : f \in ContextFields} |->
              IF g \in {SourceOf[f] : f \in S} THEN NewValue ELSE e] :
            S \in FieldSets, e \in {JsNull, JsString(<<>>)}}

InitMerge ==
    /\ mergePrev \in PrevContexts
    /\ mergeData \in ExtractedDatas
    /\ mergeOut = Pending
    /\ ExtractorIdle
    /\ RelayIdle
    /\ UploadMounted
    /\ ChatMounted
    /\ ChatRelayIdle

\* the updater passed to setContext is applied
ApplyMerge ==
    /\ mergeOut = Pending
    /\ mergeOut' = MergeContext(mergePrev, mergeData)
    /\ UNCHANGED <<fnVars, chatRelayVars, relayVars, mergePrev, mergeData, uploadVars, chatVars>>

NextMerge == ApplyMerge

SpecMerge == InitMerge /\ [][NextMerge]_vars

\* present-value-wins for the context field f: a non-empty extracted value
\* replaces the prior value, an empty or absent one leaves it
PresentValueWins(f) ==
    mergeOut[f] = IF Falsy(Field(mergeData, SourceOf[f]))
                  THEN mergePrev[f]
                  ELSE Field(mergeData, SourceOf[f])

\* C7 as stated: the merge is present-value-wins for every merged field,
\* country and jurisdiction among them.
C7_PresentValueWinsEveryField ==
    mergeOut # Pending => \A f \in ContextFields : PresentValueWins(f)

\* C7 amended: the merge is present-value-wins for title, year, summary,
\* objectives, agencies and parliamentType.  country is prior-value-wins:
\* suggestedCountry is taken only when the prior country is empty.
\* jurisdiction is present-value-wins, except that it becomes "national"
\* when jurisdictionLevel and the prior jurisdiction are both empty.
C7_MergeByField ==
    mergeOut # Pending =>
        /\ \A f \in ContextFields \ {"country", "jurisdiction"} : PresentValueWins(f)
        /\ mergeOut.country =
              IF ~Falsy(mergePrev.country) THEN mergePrev.country
              ELSE IF ~Falsy(Field(mergeData, "suggestedCountry"))
                   THEN Field(mergeData, "suggestedCountry")
              ELSE JsString(<<>>)
        /\ mergeOut.jurisdiction =
              IF ~Falsy(Field(mergeData, "jurisdictionLevel"))
              THEN Field(mergeData, "jurisdictionLevel")
              ELSE IF ~Falsy(mergePrev.jurisdiction) THEN mergePrev.jurisdiction
              ELSE JsString(Chars("national"))

\* a context with a country has been merged with a record that suggests
\* another country and a title, and has kept its country
C7_Witness ==
    /\ mergeOut # Pending
    /\ mergePrev.country = OldValue
    /\ Field(mergeData, "suggestedCountry") = NewValue
    /\ Field(mergeData, "legislationTitle") = NewValue
    /\ mergeOut.country = OldValue
    /\ mergeOut.legislationTitle = NewValue

----------------------------------------------------------------------------
(* The wizard: document upload and extraction, aiService.js 447-546, 629-695 *)

\* String.prototype.endsWith
endsWith(s, suffix) ==
    /\ Len(suffix) <= Len(s)
    /\ SubSeq(s, Len(s) - Len(suffix) + 1, Len(s)) = suffix

\* the files the user has at hand: name, MIME type, and what
\* extractTextFromDocument(file) resolves to or rejects with
Files ==
    {[name |-> "clean-air.txt", type |-> "text/plain", text |-> JsString(CleanAirText)],
     [name |-> "note.txt", type |-> "text/plain", text |-> JsString(LoremText)],
     [name |-> "scan.pdf", type |-> "application/pdf", text |-> Throw("Failed to extract text")],
     [name |-> "photo.png", type |-> "image/png", text |-> Throw("Failed to extract text")]}

\* handleFileUpload: validTypes.includes(file.type) || file.name.endsWith(...)
ValidFileType(file) ==
    \/ file.type \in {"application/pdf",
                      "application/vnd.openxmlformats-officedocument.wordprocessingml.document",
                      "text/plain", "application/msword"}
    \/ \E ext \in {Chars(".txt"), Chars(".pdf"), Chars(".docx"), Chars(".doc")} :
          endsWith(Chars(file.name), ext)

\* what checkServerHealth() resolves to (aiService.js 9-19, server.js 47-53)
HealthOutcomes ==
    {[status |-> "ok", aiConfigured |-> TRUE], [status |-> "ok", aiConfigured |-> FALSE],
     [status |-> "error", aiConfigured |-> FALSE], [status |-> "offline", aiConfigured |-> FALSE]}

\* a record the model path of the relay can answer with
AiData ==
    [legislationTitle |-> JsString(Chars("Clean Air Act")),
     legislationYear |-> JsString(Chars("2021")),
     suggestedCountry |-> JsString(Chars("Kenya")),
     jurisdictionLevel |-> JsString(Chars("regional")),
     reviewClauses |-> JsString(Chars("Section 9"))]

\* return {...result.data, _method: result.method, _warning: result.warning}
WithMethod(data, method, warning) ==
    [f \in DOMAIN data \cup {"_method", "_warning"} |->
        IF f = "_method" THEN method ELSE IF f = "_warning" THEN warning ELSE data[f]]

\* what extractLegislationWithAI(text, filename) resolves to or rejects
\* with: a model result, the relay's fallback result r, or an Error
BackendOutcomes(r) ==
    {JsObject(WithMethod(AiData, JsString(Chars("ai")), JsUndefined)),
     JsObject(WithMethod(r.fields, JsString(Chars("fallback")), JsString(Chars("warning")))),
     Throw("Failed to extract legislation details")}

\* the sequence without its element i
Remove(seq, i) == SubSeq(seq, 1, i - 1) \o SubSeq(seq, i + 1, Len(seq))

\* the extract button rendered without the test of isExtracting
ExtractButtonShownWhileExtracting ==
    /\ uploadedFile # JsNull
    /\ ~extractionComplete

\* the extract button is rendered: uploadedFile && !extractionComplete && !isExtracting
ExtractButtonShown ==
    /\ uploadedFile # JsNull
    /\ ~extractionComplete
    /\ ~isExtracting

\* useEffect(() => { checkServerHealth().then(setServerStatus) }, []) settles
HealthSettles ==
    /\ serverStatus.status = "checking"
    /\ serverStatus' \in HealthOutcomes
    /\ UNCHANGED <<context, monitoring, uploadedFile, documentText, documentInfo,
                   isExtracting, extractionComplete, extractionError, extractionStatus,
                   extractionMethod, extractions>>
    /\ UNCHANGED <<fnVars, chatRelayVars, relayVars, mergeVars, chatVars>>

\* handleFileUpload(file), from the drop zone, which is rendered when no
\* file is uploaded
SelectFile ==
    /\ uploadedFile = JsNull
    /\ \E file \in Files :
          IF ~ValidFileType(file)
          THEN /\ extractionError' =
                  JsString(Chars("Please upload a PDF, Word document, or text file"))
               /\ UNCHANGED <<uploadedFile, extractionComplete, documentText, documentInfo>>
          ELSE /\ uploadedFile' = file
               /\ extractionError' = JsNull
               /\ extractionComplete' = FALSE
               /\ documentText' = JsString(<<>>)
               /\ documentInfo' = JsNull
    /\ UNCHANGED <<context, monitoring, isExtracting, extractionStatus, extractionMethod,
                   serverStatus, extractions>>
    /\ UNCHANGED <<fnVars, chatRelayVars, relayVars, mergeVars, chatVars>>

\* clearUpload, from the remove button, which is rendered when a file is uploaded
ClearUpload ==
    /\ uploadedFile # JsNull
    /\ uploadedFile' = JsNull
    /\ extractionComplete' = FALSE
    /\ extractionError' = JsNull
    /\ documentText' = JsString(<<>>)
    /\ documentInfo' = JsNull
    /\ extractionStatus' = ""
    /\ UNCHANGED <<context, monitoring, isExtracting, extractionMethod, serverStatus,
                   extractions>>
    /\ UNCHANGED <<fnVars, chatRelayVars, relayVars, mergeVars, chatVars>>

\* extractLegislationDetails up to its first await, from the extract button
ClickExtract ==
    /\ ExtractButtonShown
    /\ isExtracting' = TRUE
    /\ extractionError' = JsNull
    /\ extractionStatus' = "Extracting text from document..."
    /\ extractionMethod' = JsNull
    /\ extractions' = Append(extractions,
                             [file |-> uploadedFile,
                              serverOk |-> serverStatus.status = "ok",
                              step |-> "readText",
                              text |-> JsUndefined])
    /\ UNCHANGED <<context, monitoring, uploadedFile, documentText, documentInfo,
                   extractionComplete, serverStatus>>
    /\ UNCHANGED <<fnVars, chatRelayVars, relayVars, mergeVars, chatVars>>

\* catch (error) of extraction i (aiService.js 531-536)
ExtractionFails(i, message) ==
    /\ isExtracting' = FALSE
    /\ extractionError' = JsString(Chars(message))
    /\ extractionStatus' = ""
    /\ extractions' = Remove(extractions, i)

\* Step 3 without setExtractionComplete(true)
ExtractionSucceedsUnflagged(i, d) ==
    /\ context' = MergeContext(context, d)
    /\ monitoring' = IF Falsy(Field(d, "reviewClauses")) THEN monitoring
                     ELSE [monitoring EXCEPT !.reviewClauses = d.reviewClauses]
    /\ isExtracting' = FALSE
    /\ extractionComplete' = extractionComplete
    /\ extractionStatus' = ""
    /\ extractions' = Remove(extractions, i)

\* Step 3 of extraction i (aiService.js 507-530) for extractedData d
ExtractionSucceeds(i, d) ==
    /\ context' = MergeContext(context, d)
    /\ monitoring' = IF Falsy(Field(d, "reviewClauses")) THEN monitoring
                     ELSE [monitoring EXCEPT !.reviewClauses = d.reviewClauses]
    /\ isExtracting' = FALSE
    /\ extractionComplete' = TRUE
    /\ extractionStatus' = ""
    /\ extractions' = Remove(extractions, i)

\* await extractTextFromDocument(uploadedFile) settles with `text`
TextSettled(i, text) ==
    IF text.type = "throw"
    THEN /\ ExtractionFails(i, text.error)
         /\ UNCHANGED documentText
    ELSE /\ documentText' = text
         /\ extractions' = [extractions EXCEPT ![i].step = "docInfo", ![i].text = text]
         /\ UNCHANGED <<isExtracting, extractionError, extractionStatus>>

TextSettles ==
    /\ \E i \in 1..Len(extractions) :
          /\ extractions[i].step = "readText"
          /\ TextSettled(i, extractions[i].file.text)
    /\ UNCHANGED <<context, monitoring, uploadedFile, documentInfo, extractionComplete,
                   extractionMethod, serverStatus>>
    /\ UNCHANGED <<fnVars, chatRelayVars, relayVars, mergeVars, chatVars>>

\* await getDocumentInfo(uploadedFile) settles; the length test and the
\* choice of the path follow (aiService.js 478-500)
InfoSettled(i, x) ==
    /\ documentInfo' = [name |-> x.file.name]
    /\ IF validateText(x.text) # "accept"
       THEN ExtractionFails(i, "Could not extract enough text from the document")
       ELSE /\ extractionStatus' =
                  IF x.serverOk THEN "Analyzing with AI" ELSE "Analyzing document structure..."
            /\ extractions' =
                  [extractions EXCEPT ![i].step = IF x.serverOk THEN "backend" ELSE "delay"]
            /\ UNCHANGED <<isExtracting, extractionError>>

InfoSettles ==
    /\ \E i \in 1..Len(extractions) :
          /\ extractions[i].step = "docInfo"
          /\ InfoSettled(i, extractions[i])
    /\ UNCHANGED <<context, monitoring, uploadedFile, documentText, extractionComplete,
                   extractionMethod, serverStatus>>
    /\ UNCHANGED <<fnVars, chatRelayVars, relayVars, mergeVars, chatVars>>

\* extractedData = extractLegislationFallback(text, uploadedFile.name);
\* setExtractionMethod('fallback'); Step 3 follows unless the call raises
ClientFallback(i, r) ==
    IF r.type = "throw"
    THEN /\ ExtractionFails(i, r.error)
         /\ UNCHANGED <<context, monitoring, extractionComplete, extractionMethod>>
    ELSE /\ extractionMethod' = JsString(Chars("fallback"))
         /\ ExtractionSucceeds(i, r.fields)
         /\ UNCHANGED extractionError

\* await extractLegislationWithAI(text, uploadedFile.name) settles with
\* `result`; r is what the client copy of the extractor returns
BackendSettled(i, result, r) ==
    IF result.type = "throw" THEN ClientFallback(i, r)
    ELSE /\ extractionMethod' = Or(Field(result.fields, "_method"), JsString(Chars("ai")))
         /\ ExtractionSucceeds(i, result.fields)
         /\ UNCHANGED extractionError

BackendSettles ==
    /\ \E i \in 1..Len(extractions) :
          /\ extractions[i].step = "backend"
          /\ \E result \in BackendOutcomes(extractFallback(extractions[i].text,
                                                           JsString(Chars(extractions[i].file.name)))) :
                BackendSettled(i, result,
                               extractLegislationFallback(extractions[i].text,
                                                          JsString(Chars(extractions[i].file.name))))
    /\ UNCHANGED <<uploadedFile, documentText, documentInfo, serverStatus>>
    /\ UNCHANGED <<fnVars, chatRelayVars, relayVars, mergeVars, chatVars>>

\* await new Promise(resolve => setTimeout(resolve, 500)) settles
DelaySettles ==
    /\ \E i \in 1..Len(extractions) :
          /\ extractions[i].step = "delay"
          /\ ClientFallback(i, extractLegislationFallback(extractions[i].text,
                                                          JsString(Chars(extractions[i].file.name))))
    /\ UNCHANGED <<uploadedFile, documentText, documentInfo, serverStatus>>
    /\ UNCHANGED <<fnVars, chatRelayVars, relayVars, mergeVars, chatVars>>

\* the context fields the user types into, and what is typed
EditedFields == {"country", "legislationTitle"}
TypedValues == {JsString(<<>>), JsString(Chars("typed"))}

\* onChange={(e) => setContext({ ...context, country: e.target.value })} and
\* its like (aiService.js 766-855)
EditContext ==
    /\ \E f \in EditedFields, v \in TypedValues : context' = [context EXCEPT ![f] = v]
    /\ UNCHANGED <<monitoring, uploadedFile, documentText, documentInfo, isExtracting,
                   extractionComplete, extractionError, extractionStatus, extractionMethod,
                   serverStatus, extractions>>
    /\ UNCHANGED <<fnVars, chatRelayVars, relayVars, mergeVars, chatVars>>

InitUpload ==
    /\ UploadMounted
    /\ ChatMounted
    /\ ChatRelayIdle
    /\ MergeIdle
    /\ ExtractorIdle
    /\ RelayIdle

NextUpload ==
    \/ HealthSettles
    \/ SelectFile
    \/ ClearUpload
    \/ ClickExtract
    \/ TextSettles
    \/ InfoSettles
    \/ BackendSettles
    \/ DelaySettles
    \/ EditContext

SpecUpload == InitUpload /\ [][NextUpload]_vars

\* C6: at most one call of extractLegislationDetails is in flight, and the
\* extract button is not rendered while one is: isExtracting is true
\* exactly while a call is in flight, under every interleaving of upload,
\* clearUpload, re-upload and clicks on the button.
C6_AtMostOneExtraction ==
    /\ Len(extractions) <= 1
    /\ isExtracting <=> Len(extractions) = 1
    /\ isExtracting => ~ExtractButtonShown

\* while an extraction is in flight the file was removed and another one
\* uploaded, so that only isExtracting keeps the button away
C6_Witness ==
    /\ Len(extractions) = 1
    /\ uploadedFile # JsNull
    /\ uploadedFile # extractions[1].file
    /\ ~extractionComplete

----------------------------------------------------------------------------
(* The wizard: chat, aiService.js 1612-1666, 1728-1785 *)

\* the most messages the transcript has when a control is used
MaxTranscript == 3
\* the most file reads and chat requests that are awaited at once
MaxChatUploads == 1
MaxChatRequests == 2

\* what the user types into the message input
ChatInputs == {"", "  ", "What changed in 2023?"}

\* the messages of the quick-action buttons (aiService.js 1762-1780)
QuickActions ==
    {"What are the key steps of Post-Legislative Scrutiny?",
     "Help me select the right scrutiny lens for my legislation.",
     "How do I draft Terms of Reference for a PLS inquiry?",
     "What questions should I ask witnesses during a PLS hearing?"}

\* the files the user attaches in the chat
ChatFiles == {file \in Files : file.name \in {"clean-air.txt", "scan.pdf"}}

\* what a chat request settles with: a success envelope, an envelope with
\* success false, or a rejection of fetch or response.json()
ChatOutcomes == {"success", "failure", "error"}

UserMessage(message) == [role |-> "user", content |-> message]
AssistantMessage(content) == [role |-> "assistant", content |-> content]

\* the assistant message sendChatMessage appends for an outcome (aiService.js 1633-1641)
ReplyFor(outcome) ==
    IF outcome = "success" THEN AssistantMessage("data.message")
    ELSE IF outcome = "failure"
         THEN AssistantMessage("Sorry, I encountered an error. Please try again.")
    ELSE AssistantMessage("Unable to connect to the assistant.")

\* const uploadMessage = `I've uploaded a legislative document: "${file.name}" ...`
UploadMessage(file) == "I've uploaded a legislative document: " \o file.name

\* the state a handler of the current render closes over
CurrentRender ==
    [messages |-> chatMessages, documentText |-> chatDocumentText, context |-> context]

\* sendChatMessage without the setChatMessages of the user message
sendChatMessageNoEcho(message, render) ==
    IF trim(Chars(message)) = <<>>
    THEN UNCHANGED <<chatMessages, chatInput, isChatLoading, chatRequests>>
    ELSE /\ UNCHANGED chatMessages
         /\ chatInput' = ""
         /\ isChatLoading' = TRUE
         /\ chatRequests' =
               Append(chatRequests,
                      [messages |-> Append(render.messages, UserMessage(message)),
                       documentText |-> render.documentText,
                       context |-> render.context])

\* sendChatMessage(message) up to its await, called from a handler that
\* closes over the state `render`
sendChatMessage(message, render) ==
    IF trim(Chars(message)) = <<>>
    THEN UNCHANGED <<chatMessages, chatInput, isChatLoading, chatRequests>>
    ELSE /\ chatMessages' = Append(chatMessages, UserMessage(message))
         /\ chatInput' = ""
         /\ isChatLoading' = TRUE
         /\ chatRequests' =
               Append(chatRequests,
                      [messages |-> Append(render.messages, UserMessage(message)),
                       documentText |-> render.documentText,
                       context |-> render.context])

\* the controls are used only while the explored transcript has room
ChatRoom == Len(chatMessages) < MaxTranscript /\ Len(chatRequests) < MaxChatRequests

\* onChange of the message input, which has disabled={isChatLoading}
TypeChatInput ==
    /\ ~isChatLoading
    /\ chatInput' \in ChatInputs
    /\ UNCHANGED <<chatMessages, isChatLoading, chatDocumentText, chatUploads, chatRequests>>
    /\ UNCHANGED <<fnVars, chatRelayVars, relayVars, mergeVars, uploadVars>>

\* onKeyDown of the message input with Enter
PressEnter ==
    /\ ~isChatLoading
    /\ ChatRoom
    /\ sendChatMessage(chatInput, CurrentRender)
    /\ UNCHANGED <<chatDocumentText, chatUploads>>
    /\ UNCHANGED <<fnVars, chatRelayVars, relayVars, mergeVars, uploadVars>>

\* onClick of Send, which has disabled={isChatLoading || !chatInput.trim()}
ClickSend ==
    /\ ~isChatLoading
    /\ trim(Chars(chatInput)) # <<>>
    /\ ChatRoom
    /\ sendChatMessage(chatInput, CurrentRender)
    /\ UNCHANGED <<chatDocumentText, chatUploads>>
    /\ UNCHANGED <<fnVars, chatRelayVars, relayVars, mergeVars, uploadVars>>

\* onClick of a quick-action button, which has no disabled attribute
ClickQuickAction ==
    /\ ChatRoom
    /\ \E message \in QuickActions : sendChatMessage(message, CurrentRender)
    /\ UNCHANGED <<chatDocumentText, chatUploads>>
    /\ UNCHANGED <<fnVars, chatRelayVars, relayVars, mergeVars, uploadVars>>

\* onChange of the chat file input, which has no disabled attribute:
\* handleChatFileUpload up to its await
SelectChatFile ==
    /\ ChatRoom
    /\ Len(chatUploads) < MaxChatUploads
    /\ \E file \in ChatFiles :
          chatUploads' = Append(chatUploads, [file |-> file, render |-> CurrentRender])
    /\ UNCHANGED <<chatMessages, chatInput, isChatLoading, chatDocumentText, chatRequests>>
    /\ UNCHANGED <<fnVars, chatRelayVars, relayVars, mergeVars, uploadVars>>

\* handleChatFileUpload after `await extractTextFromDocument(file)` has
\* settled with `text`
ChatFileSettled(u, text) ==
    IF text.type = "throw"
    THEN /\ chatMessages' = Append(chatMessages, AssistantMessage("Error reading the file"))
         /\ UNCHANGED <<chatInput, isChatLoading, chatDocumentText, chatRequests>>
    ELSE /\ chatDocumentText' = text
         /\ sendChatMessage(UploadMessage(u.file), u.render)

ChatFileSettles ==
    /\ \E i \in 1..Len(chatUploads) :
          /\ ChatFileSettled(chatUploads[i], chatUploads[i].file.text)
          /\ chatUploads' = Remove(chatUploads, i)
    /\ UNCHANGED <<fnVars, chatRelayVars, relayVars, mergeVars, uploadVars>>

\* the fetch of a chat request settles, and finally runs
ChatRequestSettles ==
    /\ \E i \in 1..Len(chatRequests), outcome \in ChatOutcomes :
          /\ chatMessages' = Append(chatMessages, ReplyFor(outcome))
          /\ chatRequests' = Remove(chatRequests, i)
    /\ isChatLoading' = FALSE
    /\ UNCHANGED <<chatInput, chatDocumentText, chatUploads>>
    /\ UNCHANGED <<fnVars, chatRelayVars, relayVars, mergeVars, uploadVars>>

InitChat ==
    /\ ChatMounted
    /\ ChatRelayIdle
    /\ UploadMounted
    /\ MergeIdle
    /\ ExtractorIdle
    /\ RelayIdle

NextChat ==
    \/ TypeChatInput
    \/ PressEnter
    \/ ClickSend
    \/ ClickQuickAction
    \/ SelectChatFile
    \/ ChatFileSettles
    \/ ChatRequestSettles

SpecChat == InitChat /\ [][NextChat]_vars

\* C5: at most one chat request is outstanding at any moment.
C5_AtMostOneChatRequest == Len(chatRequests) <= 1

----------------------------------------------------------------------------
(* Claims about the fields the Pattern Extractor derives *)

\* the field f of the record the server copy returned
ServerField(f) == fnServer.fields[f].chars

\* text[i..i+3] is 19dd or 20dd
YearDigitsAt(text, i) ==
    /\ i >= 1
    /\ i + 3 <= Len(text)
    /\ <<text[i], text[i + 1]>> \in {<<"1", "9">>, <<"2", "0">>}
    /\ text[i + 2] \in Digit
    /\ text[i + 3] \in Digit

\* the character at index i is none of the characters of C, or there is none
NotIn(text, i, C) == i < 1 \/ i > Len(text) \/ text[i] \notin C

\* where a 19dd/20dd run starts that has no digit before or after it
YearsNotInLongerNumber(text) ==
    {i \in 1..Len(text) :
        YearDigitsAt(text, i) /\ NotIn(text, i - 1, Digit) /\ NotIn(text, i + 4, Digit)}

\* where a 19dd/20dd run starts that has no letter, digit or underscore
\* before or after it
YearTokens(text) ==
    {i \in 1..Len(text) :
        YearDigitsAt(text, i) /\ NotIn(text, i - 1, WordChar) /\ NotIn(text, i + 4, WordChar)}

FirstYearAmong(text, starts) ==
    IF starts = {} THEN <<>> ELSE SubSeq(text, Min(starts), Min(starts) + 3)

\* C11 as stated: legislationYear is the first 19dd/20dd run of four digits
\* that is not part of a longer number, and empty when there is none.
C11_FirstYearNotInLongerNumber ==
    fnServer.type = "object" =>
        ServerField("legislationYear") = FirstYearAmong(fnText.chars, YearsNotInLongerNumber(fnText.chars))

\* C11 amended: legislationYear is the first 19dd/20dd run of four digits
\* that is not part of a longer word, a word being a run of letters, digits
\* and underscores, and is empty when there is none; so it is empty or four
\* digits that start with 19 or 20.
C11_FirstYearToken ==
    fnServer.type = "object" =>
        /\ ServerField("legislationYear") = FirstYearAmong(fnText.chars, YearTokens(fnText.chars))
        /\ \/ ServerField("legislationYear") = <<>>
           \/ /\ Len(ServerField("legislationYear")) = 4
              /\ YearDigitsAt(ServerField("legislationYear"), 1)

\* the year was taken from a text in which a run in a longer number, a run
\* before a letter and a run after an underscore come first
C11_Witness ==
    /\ fnText = JsString(YearsText)
    /\ fnServer.type = "object"
    /\ ServerField("legislationYear") = Chars("2005")

\* C12 as stated: for the text "in room 1999A" legislationYear is "1999".
C12_YearBeforeLetterCounts ==
    (fnText = JsString(RoomText) /\ fnServer.type = "object") =>
        ServerField("legislationYear") = Chars("1999")

\* every 19dd/20dd run of the text has a letter right after it
EveryYearBeforeLetter(text) ==
    \A i \in 1..Len(text) :
        YearDigitsAt(text, i) => i + 4 <= Len(text) /\ text[i + 4] \in Upper \cup Lower

\* C12 amended: a 19dd/20dd digit run immediately followed by a letter does
\* not count as the year; for the text "in room 1999A" legislationYear is
\* the empty string.
C12_YearBeforeLetterIgnored ==
    fnServer.type = "object" =>
        /\ EveryYearBeforeLetter(fnText.chars) => ServerField("legislationYear") = <<>>
        /\ fnText = JsString(RoomText) => ServerField("legislationYear") = <<>>

\* the extractor has returned for the text "in room 1999A"
C12_Witness ==
    /\ fnText = JsString(RoomText)
    /\ EveryYearBeforeLetter(RoomText)
    /\ ~EveryYearBeforeLetter(YearsText)
    /\ fnServer.type = "object"

\* where a line starts with one of the title keywords followed by ':', a
\* space or a tab
TitleLines(text) ==
    {k \in 1..Len(text) :
        /\ k = 1 \/ text[k - 1] = "\n"
        /\ \E kw \in TitleKeywords :
              /\ LitAt(text, k, kw)
              /\ k + Len(kw) <= Len(text)
              /\ text[k + Len(kw)] \in {":", " ", "\t"}}

\* the rest of the line from index e on, without the ':' and whitespace it
\* starts with, trimmed
RestOfLine(text, e) ==
    trim(SubSeq(text, e + RunLen(text, e, {":", " ", "\t"}),
                e + RunLenNot(text, e, {"\n"}) - 1))

\* the trimmed remainder of the title line that starts at index k
TitleOfLine(text, k) ==
    RestOfLine(text, k + KeywordLen({kw \in TitleKeywords : LitAt(text, k, kw)}))

\* C13: when the text has a title line, legislationTitle is the trimmed
\* remainder of the first such line, whatever the filename.
C13_TitleIsRestOfTitleLine ==
    (fnServer.type = "object" /\ TitleLines(fnText.chars) # {}) =>
        ServerField("legislationTitle") = TitleOfLine(fnText.chars, Min(TitleLines(fnText.chars)))

\* the file name without its extension, with '-' and '_' as spaces and a
\* space at each lower-to-upper transition
SpacedName(f) == splitCamelCase(dashesToSpaces(stripExtension(f)))

\* s with the first letter of every word in upper case and the rest in
\* lower case, the words being delimited by the characters of Delims
TitleCased(s, Delims) ==
    [i \in 1..Len(s) |->
        IF i = 1 \/ s[i - 1] \in Delims THEN toUpperCase(s[i]) ELSE toLowerCase(s[i])]

\* the call has returned a title for a text without a title line
TitleFromFilenameCase ==
    /\ fnServer.type = "object"
    /\ IsString(fnFilename)
    /\ titleMatch(fnText.chars) = <<>>

\* C14 as stated: with no title line, legislationTitle is the file name
\* with every whitespace-delimited word title-cased.
C14_WhitespaceDelimitedWords ==
    TitleFromFilenameCase =>
        ServerField("legislationTitle") = TitleCased(SpacedName(fnFilename.chars), WhiteSpace)

\* C14 amended: with no title line, legislationTitle is the file name with
\* every space-delimited word title-cased (other whitespace, such as a tab,
\* does not start a word); "community-empowermentAct.txt" gives
\* "Community Empowerment Act".
C14_SpaceDelimitedWords ==
    TitleFromFilenameCase =>
        /\ ServerField("legislationTitle") = TitleCased(SpacedName(fnFilename.chars), {" "})
        /\ fnFilename.chars = Chars("community-empowermentAct.txt") =>
              ServerField("legislationTitle") = Chars("Community Empowerment Act")

\* the title was derived from "community-empowermentAct.txt"
C14_Witness ==
    /\ TitleFromFilenameCase
    /\ fnFilename.chars = Chars("community-empowermentAct.txt")
    /\ ServerField("legislationTitle") = Chars("Community Empowerment Act")

\* the entries of a comma-separated list, each trimmed
CommaEnds(s) == {i \in 1..(Len(s) + 1) : i = Len(s) + 1 \/ s[i] = ","}
EntryEnding(s, e) == trim(SubSeq(s, Max({0} \cup {j \in CommaEnds(s) : j < e}) + 1, e - 1))
EntriesAt(s, ends) ==
    [k \in 1..Cardinality(ends) |->
        EntryEnding(s, CHOOSE e \in ends : Cardinality({j \in ends : j <= e}) = k)]
Entries(s) == EntriesAt(s, CommaEnds(s))

\* the index at which x first appears in list
FirstIndex(list, x) == Min({i \in 1..Len(list) : list[i] = x})

\* entries are the first (at most AgencyLimit) distinct elements of found,
\* in order of first appearance, none twice
FirstDistinct(entries, found) ==
    /\ Len(entries) <= 5
    /\ Len(entries) = Min({5, Cardinality({found[i] : i \in 1..Len(found)})})
    /\ \A k \in 1..Len(entries) : \E i \in 1..Len(found) : found[i] = entries[k]
    /\ \A k, l \in 1..Len(entries) :
          k < l => FirstIndex(found, entries[k]) < FirstIndex(found, entries[l])
    /\ \A i \in 1..Len(found) :
          i < FirstIndex(found, entries[Len(entries)]) =>
              \E k \in 1..Len(entries) : entries[k] = found[i]

\* C15: when an agency keyword occurs, implementingAgencies lists the trimmed
\* keyword matches without duplicates, in order of first appearance, cut to
\* the first 5 and joined with ", ": at most 5 entries, none twice.
C15_AgenciesDedupedAndCapped ==
    (fnServer.type = "object" /\ agencyMatches(fnText.chars) # <<>>) =>
        /\ FirstDistinct(Entries(ServerField("implementingAgencies")),
                         TrimAll(agencyMatches(fnText.chars)))
        /\ ServerField("implementingAgencies") =
              joinComma(Entries(ServerField("implementingAgencies")))

\* a text naming "Ministry of Health" three times and five other agencies
\* has been reduced to its first five distinct agencies
C15_Witness ==
    /\ fnServer.type = "object"
    /\ fnText.chars = ObjectivesText
    /\ Len(agencyMatches(fnText.chars)) = 8
    /\ ServerField("implementingAgencies") =
          Chars("Ministry of Health, Agency A, Board B, Office C, Commission D")

\* none of the summary, objectives and agency patterns occurs in text
NoPatterns(text) ==
    /\ summaryMatch(text) = <<>>
    /\ objectivesMatch(text) = <<>>
    /\ agencyMatches(text) = <<>>

\* the text before the first blank line, within the first 500 characters
FirstParagraph(text) ==
    SubSeq(text, 1,
           Min({Min({Len(text), 500})} \cup
               {i - 1 : i \in {j \in 1..(Min({Len(text), 500}) - 1) :
                                  text[j] = "\n" /\ text[j + 1] = "\n"}}))

\* C16: the summary, objectives and agencies fields are never empty, and for
\* a text with none of the three patterns they are the first-paragraph
\* fallback or the default sentence, the two-line placeholder, and
\* "Relevant government ministries and agencies".
C16_DefaultsNeverEmpty ==
    fnServer.type = "object" =>
        /\ ServerField("legislationSummary") # <<>>
        /\ ServerField("primaryObjectives") # <<>>
        /\ ServerField("implementingAgencies") # <<>>
        /\ NoPatterns(fnText.chars) =>
              /\ ServerField("legislationSummary") =
                    IF trim(collapseWhitespace(FirstParagraph(fnText.chars))) # <<>>
                    THEN trim(collapseWhitespace(FirstParagraph(fnText.chars)))
                    ELSE DefaultSummary
              /\ ServerField("primaryObjectives") = DefaultObjectives
              /\ ServerField("implementingAgencies") =
                    Chars("Relevant government ministries and agencies")

\* a text with none of the patterns got its first paragraph as summary and
\* the two fixed defaults
C16_Witness ==
    /\ fnServer.type = "object"
    /\ fnText.chars = LoremText
    /\ NoPatterns(fnText.chars)
    /\ ServerField("legislationSummary") = LoremText
    /\ ServerField("primaryObjectives") = DefaultObjectives
    /\ ServerField("implementingAgencies") = DefaultAgencies

\* the empty text got the default sentence as summary
C16_DefaultSentenceReached ==
    /\ fnServer.type = "object"
    /\ fnText.chars = <<>>
    /\ ServerField("legislationSummary") = DefaultSummary

\* a summary section of whitespace only got the default sentence as summary
C16_BlankCaptureReached ==
    /\ fnServer.type = "object"
    /\ summaryMatch(fnText.chars) # <<>>
    /\ ServerField("legislationSummary") = DefaultSummary

\* the captured span with whitespace runs collapsed, trimmed, cut to 300
CutCapture(m) == SubSeq(trim(collapseWhitespace(m[1])), 1,
                        Min({300, Len(trim(collapseWhitespace(m[1])))}))

\* x, or the default sentence when x is empty
OrDefaultSentence(x) == IF x = <<>> THEN DefaultSummary ELSE x

\* C17 as stated: when the summary pattern matches, legislationSummary is the
\* captured span collapsed, trimmed and cut to 300 characters; otherwise it
\* is built from the first 500 characters; it never exceeds 500 characters.
C17_SummaryIsCutCapture ==
    fnServer.type = "object" =>
        /\ summaryMatch(fnText.chars) # <<>> =>
              ServerField("legislationSummary") = CutCapture(summaryMatch(fnText.chars))
        /\ summaryMatch(fnText.chars) = <<>> =>
              ServerField("legislationSummary") =
                  OrDefaultSentence(trim(collapseWhitespace(FirstParagraph(fnText.chars))))
        /\ Len(ServerField("legislationSummary")) <= 500

\* C17 amended: when the summary pattern matches, legislationSummary is the
\* captured span collapsed, trimmed and cut to 300 characters, or the default
\* sentence when that is empty; otherwise it is built from the first 500
\* characters; it never exceeds 500 characters.
C17_SummaryIsCutCaptureOrDefault ==
    fnServer.type = "object" =>
        /\ summaryMatch(fnText.chars) # <<>> =>
              /\ ServerField("legislationSummary") =
                    OrDefaultSentence(CutCapture(summaryMatch(fnText.chars)))
              /\ Len(ServerField("legislationSummary")) <= 300
        /\ summaryMatch(fnText.chars) = <<>> =>
              ServerField("legislationSummary") =
                  OrDefaultSentence(trim(collapseWhitespace(FirstParagraph(fnText.chars))))
        /\ Len(ServerField("legislationSummary")) <= 500

\* a captured span longer than 300 characters has been cut to 300
C17_Witness ==
    /\ fnServer.type = "object"
    /\ summaryMatch(fnText.chars) # <<>>
    /\ Len(trim(collapseWhitespace(summaryMatch(fnText.chars)[1]))) > 300
    /\ Len(ServerField("legislationSummary")) = 300

\* a text longer than 500 characters without a summary section got a
\* summary of exactly 500 characters
C17_WindowReached ==
    /\ fnServer.type = "object"
    /\ summaryMatch(fnText.chars) = <<>>
    /\ Len(fnText.chars) > 500
    /\ Len(ServerField("legislationSummary")) = 500

\* both copies have been called on the same text and string filename
BothCopiesCalled ==
    /\ IsString(fnFilename)
    /\ fnServer # Pending
    /\ fnClient # Pending

----------------------------------------------------------------------------
(* The relay: POST /api/chat, server.js 253-334 *)

JsArray(items) == [type |-> "array", items |-> items]

\* documentText.substring(0, 20000)
DocumentWindow == 20000

\* a message {role, content} of the request
ChatEntry(role, content) == JsObject([role |-> role, content |-> content])

\* req.body.messages: absent, a string, and arrays: empty, of one user
\* message, of a system and an assistant message, and with a null element
ReqMessages ==
    {JsUndefined, JsNull, JsString(Chars("hi")), JsArray(<<>>),
     JsArray(<<ChatEntry("user", "What is PLS?")>>),
     JsArray(<<ChatEntry("system", "s"), ChatEntry("assistant", "a")>>),
     JsArray(<<ChatEntry("user", "q"), JsNull>>)}
ReqDocumentTexts == {JsUndefined, JsString(<<>>), JsString(LoremText), JsNumber(7)}
ReqContexts ==
    {JsUndefined, JsObject([legislationTitle |-> JsString(<<>>)]),
     JsObject([legislationTitle |-> JsString(Chars("Clean Air Act"))])}

\* what `await response.json()` of a success response resolves to, or that
\* it rejects ("badBody"): no content array, an empty one, a first block
\* with no text, a first block whose text is null, or one whose text is a
\* string
ChatBodies ==
    {[kind |-> k, reply |-> <<>>] :
        k \in {"badBody", "noContent", "emptyContent", "noText", "nullText"}}
    \cup {[kind |-> "text", reply |-> Chars("PLS is ...")]}

\* res.status(s).json({success: false, error})
ChatFailure(s, message) == [status |-> s, success |-> FALSE, error |-> message]

\* res.json({success: true, message}): JSON.stringify leaves out a member
\* whose value is undefined
ChatSuccess(message) ==
    IF message = JsUndefined THEN [status |-> 200, success |-> TRUE]
    ELSE [status |-> 200, success |-> TRUE, message |-> message]

\* catch (error): res.json({success: false, error: error.message})
ChatCatch(message) ==
    /\ chatPc' = "done"
    /\ chatResponses' = Append(chatResponses, ChatFailure(200, message))

\* if (!messages || !Array.isArray(messages))
validMessages(messages) == ~Falsy(messages) /\ messages.type = "array"

\* the part of systemContext that follows the fixed prompt: the document
\* excerpt when documentText is truthy, and the context block when
\* context && context.legislationTitle
systemContext(doc, ctx) ==
    [document |-> IF Falsy(doc) THEN <<>> ELSE substring(doc.chars, 0, DocumentWindow),
     hasDocument |-> ~Falsy(doc),
     hasContext |-> ~Falsy(ctx) /\ ~Falsy(ctx.fields.legislationTitle)]

\* messages.map(m => ({role: m.role, content: m.content}))
anthropicMessagesKeepRole(items) ==
    [k \in 1..Len(items) |->
        [role |-> items[k].fields.role, content |-> items[k].fields.content]]

\* messages.map(m => ({role: m.role === 'assistant' ? 'assistant' : 'user', content: m.content}))
anthropicMessages(items) ==
    [k \in 1..Len(items) |->
        [role |-> IF items[k].fields.role = "assistant" THEN "assistant" ELSE "user",
         content |-> items[k].fields.content]]

\* server.js 254-303, up to the first await: the validation, the credential
\* check, the system context, the messages and the fetch call
HandleChat ==
    /\ chatPc = "start"
    /\ IF ~validMessages(reqMessages)
       THEN /\ chatResponses' =
                  Append(chatResponses, ChatFailure(400, "Messages array is required"))
            /\ chatPc' = "done"
            /\ UNCHANGED chatFetches
       ELSE IF ~apiKey
       THEN /\ chatResponses' =
                  Append(chatResponses,
                         ChatFailure(200, "AI not configured. Please set ANTHROPIC_API_KEY in your .env file."))
            /\ chatPc' = "done"
            /\ UNCHANGED chatFetches
       ELSE IF ~Falsy(reqDocumentText) /\ ~IsString(reqDocumentText)
       THEN ChatCatch("documentText.substring is not a function") /\ UNCHANGED chatFetches
       ELSE IF \E k \in 1..Len(reqMessages.items) : reqMessages.items[k].type # "object"
       THEN ChatCatch("Cannot read properties of null (reading 'role')")
            /\ UNCHANGED chatFetches
       ELSE /\ chatFetches' =
                  Append(chatFetches,
                         [system |-> systemContext(reqDocumentText, reqContext),
                          messages |-> anthropicMessages(reqMessages.items)])
            /\ chatPc' = "awaitFetch"
            /\ UNCHANGED chatResponses
    /\ UNCHANGED <<fnVars, relayVars, uiVars, reqMessages, reqDocumentText, reqContext,
                   chatUpstream>>

\* await fetch(...) rejects: a network failure
ChatFetchRejects ==
    /\ chatPc = "awaitFetch"
    /\ chatUpstream' = [kind |-> "networkError", reply |-> <<>>]
    /\ ChatCatch("fetch failed")
    /\ UNCHANGED <<fnVars, relayVars, uiVars, reqMessages, reqDocumentText, reqContext,
                   chatFetches>>

\* await fetch(...) resolves with a response; response.ok is tested
ChatFetchResolves ==
    /\ chatPc = "awaitFetch"
    /\ \E ok \in BOOLEAN :
          /\ chatPc' = IF ok THEN "awaitBody" ELSE "awaitErrorBody"
          /\ chatUpstream' = [kind |-> IF ok THEN "ok" ELSE "errorStatus", reply |-> <<>>]
    /\ UNCHANGED <<fnVars, relayVars, uiVars, reqMessages, reqDocumentText, reqContext,
                   chatResponses, chatFetches>>

\* if (!response.ok): const error = await response.json() settles
ChatErrorBodySettles ==
    /\ chatPc = "awaitErrorBody"
    /\ \E parsed \in BOOLEAN :
          IF parsed
          THEN /\ chatResponses' =
                     Append(chatResponses,
                            ChatFailure(200, "AI service error. Please try again."))
               /\ chatPc' = "done"
               /\ UNCHANGED chatUpstream
          ELSE /\ chatUpstream' = [kind |-> "errorStatusBadBody", reply |-> <<>>]
               /\ ChatCatch("Unexpected token < in JSON at position 0")
    /\ UNCHANGED <<fnVars, relayVars, uiVars, reqMessages, reqDocumentText, reqContext,
                   chatFetches>>

\* data.content[0].text of a settled body: the value read, or the error raised
assistantMessage(body) ==
    IF body.kind = "badBody" THEN Throw("Unexpected end of JSON input")
    ELSE IF body.kind = "noContent"
    THEN Throw("Cannot read properties of undefined (reading '0')")
    ELSE IF body.kind = "emptyContent"
    THEN Throw("Cannot read properties of undefined (reading 'text')")
    ELSE IF body.kind = "noText" THEN JsUndefined
    ELSE IF body.kind = "nullText" THEN JsNull
    ELSE JsString(body.reply)

\* server.js 314-320 once response.json() has settled
ChatBodySettled(message) ==
    IF message.type = "throw" THEN ChatCatch(message.error)
    ELSE /\ chatResponses' = Append(chatResponses, ChatSuccess(message))
         /\ chatPc' = "done"

\* const data = await response.json() settles; data.content[0].text and the
\* response follow
ChatBodySettles ==
    /\ chatPc = "awaitBody"
    /\ \E body \in ChatBodies :
          /\ chatUpstream' = body
          /\ ChatBodySettled(assistantMessage(body))
    /\ UNCHANGED <<fnVars, relayVars, uiVars, reqMessages, reqDocumentText, reqContext,
                   chatFetches>>

InitChatRelay ==
    /\ reqMessages \in ReqMessages
    /\ reqDocumentText \in ReqDocumentTexts
    /\ reqContext \in ReqContexts
    /\ chatPc = "start"
    /\ chatUpstream = NoUpstream
    /\ chatResponses = <<>>
    /\ chatFetches = <<>>
    /\ reqText = JsUndefined
    /\ reqFilename = JsUndefined
    /\ apiKey \in BOOLEAN
    /\ pc = "idle"
    /\ upstream = NoUpstream
    /\ responses = <<>>
    /\ upstreamCalls = 0
    /\ upstreamRequests = <<>>
    /\ extractorCalls = 0
    /\ ExtractorIdle
    /\ MergeIdle
    /\ UploadMounted
    /\ ChatMounted

NextChatRelay ==
    \/ HandleChat
    \/ ChatFetchRejects
    \/ ChatFetchResolves
    \/ ChatErrorBodySettles
    \/ ChatBodySettles

SpecChatRelay == InitChatRelay /\ [][NextChatRelay]_vars

----------------------------------------------------------------------------
(* Claims about POST /api/chat *)

\* the credential is missing, or the upstream call rejected, returned a
\* non-success status, or returned a body without a text to reply with
ChatUpstreamFailed ==
    \/ ~apiKey
    \/ chatUpstream.kind \in
          {"networkError", "errorStatus", "errorStatusBadBody", "badBody", "noContent",
           "emptyContent", "noText", "nullText"}

IsChatFailure(r) ==
    /\ DOMAIN r = {"status", "success", "error"}
    /\ r.success = FALSE
    /\ r.error \in STRING

IsChatReply(r) ==
    /\ DOMAIN r = {"status", "success", "message"}
    /\ r.success = TRUE
    /\ IsString(r.message)

\* C20: POST /api/chat ends with exactly one response; when the credential
\* is missing or the upstream call rejects, returns a non-success status or
\* returns a malformed body, that response has success false and an error
\* string; success true comes with a message, and only after the upstream
\* call succeeded.
C20_ChatFailureIsStructured ==
    /\ chatPc \notin {"idle", "start", "awaitFetch", "awaitErrorBody", "awaitBody"} =>
          /\ chatPc = "done"
          /\ Len(chatResponses) = 1
          /\ ChatUpstreamFailed => IsChatFailure(chatResponses[1])
          /\ chatResponses[1].success =>
                /\ IsChatReply(chatResponses[1])
                /\ chatUpstream.kind = "text"
    /\ chatPc \in {"start", "awaitFetch", "awaitErrorBody", "awaitBody"} =>
          chatResponses = <<>>

\* the case of C20 that fails: the upstream body has a first content block
\* without a text, and the response is {success: true} with no message
C20_NoTextReached ==
    /\ chatPc = "done"
    /\ chatUpstream.kind = "noText"
    /\ chatResponses = <<[status |-> 200, success |-> TRUE]>>

\* the cases of C20 that hold: every failure but a body without a text has
\* been answered with success false and an error string
C20_HoldsButForMissingText ==
    chatUpstream.kind \notin {"noText", "nullText"} => C20_ChatFailureIsStructured

\* sent is the list given, entry by entry, with every role other than
\* "assistant" turned into "user"
ForwardedInFull(sent, given) ==
    /\ Len(sent) = Len(given)
    /\ \A k \in 1..Len(given) :
          /\ sent[k].content = given[k].fields.content
          /\ given[k].fields.role = "assistant" => sent[k].role = "assistant"
          /\ given[k].fields.role # "assistant" => sent[k].role = "user"

\* C21: the list a /api/chat request forwards upstream is the full input
\* list: same length, same order, each content unchanged, each role
\* "assistant" when the input role is "assistant" and "user" otherwise.
C21_MessagesForwardedInFull ==
    /\ Len(chatFetches) <= 1
    /\ \A n \in 1..Len(chatFetches) :
          /\ apiKey
          /\ reqMessages.type = "array"
          /\ ForwardedInFull(chatFetches[n].messages, reqMessages.items)

\* a list with a system and an assistant message has been forwarded
C21_Witness ==
    /\ Len(chatFetches) = 1
    /\ Len(reqMessages.items) = 2
    /\ reqMessages.items[1].fields.role = "system"
    /\ chatFetches[1].messages =
          <<[role |-> "user", content |-> "s"], [role |-> "assistant", content |-> "a"]>>

----------------------------------------------------------------------------
(* The user message of POST /api/extract built as a function: server.js 90 *)

\* how far the lengths of the sample texts go to either side of TruncateAt
Spread == 12

\* texts of every length from TruncateAt - Spread to TruncateAt + Spread, of
\* two fillers, each ending in "end", and two short documents
ContentTexts ==
    {Rep(c, n - 3) \o Chars("end") :
        c \in {"y", " "}, n \in (TruncateAt - Spread)..(TruncateAt + Spread)}
    \cup {LoremText, CleanAirText}

InitUserContent ==
    /\ fnText \in {JsString(t) : t \in ContentTexts}
    /\ fnFilename = JsUndefined
    /\ fnServer = Pending
    /\ fnClient = Pending
    /\ fnContent = Pending
    /\ ParserIdle
    /\ RelayIdle
    /\ MergeIdle
    /\ UploadMounted
    /\ ChatMounted
    /\ ChatRelayIdle

\* the template of the user message is evaluated for text
BuildUserContent ==
    /\ fnContent = Pending
    /\ fnContent' = userContent(fnText.chars)
    /\ UNCHANGED <<fnText, fnFilename, fnServer, fnClient, docVars, relayVars, uiVars,
                   chatRelayVars>>

NextUserContent == BuildUserContent

SpecUserContent == InitUserContent /\ [][NextUserContent]_vars

\* content carries exactly the first 15,000 characters of text, and the
\* truncation notice if and only if text is longer than that
IsExcerptOf(content, text) ==
    /\ Len(content.document) <= 15000
    /\ Len(content.document) = Min({Len(text), 15000})
    /\ \A i \in 1..Len(content.document) : content.document[i] = text[i]
    /\ Len(text) > 15000 => content.notice = TruncationNotice
    /\ Len(text) <= 15000 => content.notice = <<>>

\* C22: the document text sent upstream by /api/extract is exactly the first
\* 15,000 characters of text, and the truncation notice is appended if and
\* only if the text is longer than 15,000 characters.
C22_FirstCharactersAndNotice ==
    /\ fnContent # Pending => IsExcerptOf(fnContent, fnText.chars)
    /\ \A n \in 1..Len(upstreamRequests) : IsExcerptOf(upstreamRequests[n], reqText.chars)

\* a text of 15,001 characters has been cut to 15,000 and given the notice
C22_Witness ==
    /\ fnContent # Pending
    /\ Len(fnText.chars) = 15001
    /\ Len(fnContent.document) = 15000
    /\ fnContent.notice = TruncationNotice

\* a text of exactly 15,000 characters has been sent whole, without notice
C22_ExactLengthReached ==
    /\ fnContent # Pending
    /\ Len(fnText.chars) = 15000
    /\ fnContent.document = fnText.chars
    /\ fnContent.notice = <<>>

----------------------------------------------------------------------------
(* Claims about the chat of the wizard *)

\* the transcript keeps every message it had and gains at most one
TranscriptGrows ==
    /\ Len(chatMessages') \in {Len(chatMessages), Len(chatMessages) + 1}
    /\ SubSeq(chatMessages', 1, Len(chatMessages)) = chatMessages

\* the step gains the transcript one message of the role given
GainsOne(role) ==
    /\ Len(chatMessages') = Len(chatMessages) + 1
    /\ chatMessages'[Len(chatMessages')].role = role

\* one step of the chat, seen from the requests: a request is issued exactly
\* when sendChatMessage has added its user message and set isChatLoading,
\* and when a request settles the transcript gains one assistant-role
\* message and isChatLoading is false
ChatStep ==
    /\ TranscriptGrows
    /\ Len(chatRequests') = Len(chatRequests) + 1 =>
          /\ GainsOne("user")
          /\ chatMessages'[Len(chatMessages')] =
                chatRequests'[Len(chatRequests')].messages[Len(chatRequests'[Len(chatRequests')].messages)]
          /\ isChatLoading'
    /\ Len(chatRequests') = Len(chatRequests) - 1 =>
          /\ GainsOne("assistant")
          /\ ~isChatLoading'
    /\ Len(chatRequests') = Len(chatRequests) =>
          /\ Len(chatMessages') > Len(chatMessages) => GainsOne("assistant")
          /\ chatRequests' = chatRequests
    /\ Len(chatRequests') \in {Len(chatRequests) - 1, Len(chatRequests), Len(chatRequests) + 1}

\* C23: every sendChatMessage call with a non-blank message gains the
\* transcript exactly one user message and, when its request settles in any
\* way, exactly one assistant-role message; no earlier message is removed or
\* changed, and isChatLoading is false once the request has settled.
C23_OneUserThenOneAssistant == [][ChatStep]_vars

\* a request has settled: its user message is followed by an assistant-role
\* message, nothing is awaited and isChatLoading is false
C23_Witness ==
    /\ Len(chatMessages) = 3
    /\ chatMessages[1] = WelcomeMessage
    /\ chatMessages[2].role = "user"
    /\ chatMessages[3] \in {ReplyFor(o) : o \in ChatOutcomes}
    /\ chatRequests = <<>>
    /\ ~isChatLoading

----------------------------------------------------------------------------
(* Claims about the document upload of the wizard *)

\* a call of extractLegislationDetails starts or moves on to its next await
ExtractionProceeds ==
    /\ extractions' # extractions
    /\ Len(extractions') >= Len(extractions)

\* a call of extractLegislationDetails ends
ExtractionEnds == Len(extractions') < Len(extractions)

\* one step of the wizard, seen from context and monitoring: an extraction
\* that starts, moves on, or ends without extractionComplete leaves them as
\* they are
ExtractionStep ==
    /\ ExtractionProceeds => UNCHANGED <<context, monitoring>>
    /\ (ExtractionEnds /\ ~extractionComplete') => UNCHANGED <<context, monitoring>>
    /\ (ExtractionEnds /\ ~extractionComplete') =>
          /\ extractionError' # JsNull
          /\ ~isExtracting'
    /\ (extractions' # extractions /\ <<context, monitoring>>' # <<context, monitoring>>) =>
          /\ ExtractionEnds
          /\ extractionComplete'

\* C24: extraction changes context and monitoring only in the step in which
\* it ends successfully; from its start until its awaited calls resolve, and
\* when it ends in an error, context and monitoring are unchanged.
C24_ContextChangesOnlyOnSuccess == [][ExtractionStep]_vars

\* an extraction has ended in the error of too little text, and context and
\* monitoring are as they were at the start
C24_Witness ==
    /\ extractions = <<>>
    /\ uploadedFile # JsNull
    /\ uploadedFile.name = "note.txt"
    /\ documentText = JsString(LoremText)
    /\ extractionError = JsString(Chars("Could not extract enough text from the document"))
    /\ context = InitialContext
    /\ monitoring = [reviewClauses |-> JsString(<<>>)]

\* an extraction has ended in the error of an unreadable file
C24_UnreadableReached ==
    /\ extractions = <<>>
    /\ uploadedFile # JsNull
    /\ uploadedFile.name = "scan.pdf"
    /\ extractionError = JsString(Chars("Failed to extract text"))
    /\ context = InitialContext

\* an extraction has ended successfully and changed context and monitoring
C24_MergeReached ==
    /\ extractions = <<>>
    /\ extractionComplete
    /\ context # InitialContext
    /\ monitoring # [reviewClauses |-> JsString(<<>>)]

----------------------------------------------------------------------------
(* extractTextFromDocument called as a function: documentParser.js 54-79 *)

\* String.prototype.toLowerCase
lowerCase(s) == [i \in 1..Len(s) |-> toLowerCase(s[i])]

\* the if-else chain testing file.name as it is given
readerForCaseSensitive(file, fileName) ==
    IF endsWith(file, Chars(".pdf")) THEN "extractTextFromPDF"
    ELSE IF endsWith(file, Chars(".docx")) THEN "extractTextFromWord"
    ELSE IF endsWith(file, Chars(".doc")) THEN "extractTextFromWord"
    ELSE IF endsWith(file, Chars(".txt")) THEN "extractTextFromTxt"
    ELSE "none"

\* the if-else chain over fileName = file.name.toLowerCase(): the reader
\* that is called, "none" in the final else
readerFor(file, fileName) ==
    IF endsWith(fileName, Chars(".pdf")) THEN "extractTextFromPDF"
    ELSE IF endsWith(fileName, Chars(".docx")) THEN "extractTextFromWord"
    ELSE IF endsWith(fileName, Chars(".doc")) THEN "extractTextFromWord"
    ELSE IF endsWith(fileName, Chars(".txt")) THEN "extractTextFromTxt"
    ELSE "none"

\* the .doc branch, whose inner catch replaces the reader's error
legacyBranch(fileName) ==
    /\ ~endsWith(fileName, Chars(".pdf"))
    /\ ~endsWith(fileName, Chars(".docx"))
    /\ endsWith(fileName, Chars(".doc"))

\* catch (error): throw new Error(`Failed to extract text: ${error.message}`)
rethrown(message) == Throw(Chars("Failed to extract text: ") \o message)

\* throw new Error(`Unsupported file type: ${fileName}`), caught and rethrown
unsupported(fileName) == rethrown(Chars("Unsupported file type: ") \o fileName)

\* what a reader resolves to or rejects with
ReaderOutcomes ==
    {JsString(LoremText), JsString(<<>>), Throw(Chars("Invalid file structure"))}

\* the names of the files extractTextFromDocument is called with
DocStems == {"", "a", "Clean Air", "my.pdf", "x.doc", "readme.TXT"}
DocExtensions ==
    {"", ".pdf", ".PDF", ".docx", ".DocX", ".doc", ".DOC", ".txt", ".Txt", ".png", ".PNG",
     ".docm", ".pdf ", ".text", "pdf", ".rtf"}
DocNames == {Chars(stem \o ext) : stem \in DocStems, ext \in DocExtensions}

InitParser ==
    /\ docFile \in DocNames
    /\ docReaders = <<>>
    /\ docResult = Pending
    /\ fnText = JsUndefined
    /\ fnFilename = JsUndefined
    /\ fnServer = Pending
    /\ fnClient = Pending
    /\ fnContent = Pending
    /\ RelayIdle
    /\ MergeIdle
    /\ UploadMounted
    /\ ChatMounted
    /\ ChatRelayIdle

\* extractTextFromDocument(file) up to its first await, or to its throw
Routed(reader, fileName) ==
    IF reader = "none"
    THEN /\ docResult' = unsupported(fileName)
         /\ UNCHANGED docReaders
    ELSE /\ docReaders' = Append(docReaders, reader)
         /\ docResult' = [type |-> "reading"]

CallExtractTextFromDocument ==
    /\ docResult = Pending
    /\ Routed(readerFor(docFile, lowerCase(docFile)), lowerCase(docFile))
    /\ UNCHANGED <<docFile, fnText, fnFilename, fnServer, fnClient, fnContent, relayVars,
                   uiVars, chatRelayVars>>

\* the awaited reader settles with `outcome`
ReaderSettled(outcome, fileName) ==
    IF outcome.type # "throw" THEN outcome
    ELSE IF legacyBranch(fileName)
    THEN rethrown(Chars("Legacy .doc format is not fully supported. Please convert to .docx or PDF."))
    ELSE rethrown(outcome.error)

ReaderSettles ==
    /\ docResult = [type |-> "reading"]
    /\ \E outcome \in ReaderOutcomes : docResult' = ReaderSettled(outcome, lowerCase(docFile))
    /\ UNCHANGED <<docFile, docReaders, fnText, fnFilename, fnServer, fnClient, fnContent,
                   relayVars, uiVars, chatRelayVars>>

NextParser == CallExtractTextFromDocument \/ ReaderSettles

SpecParser == InitParser /\ [][NextParser]_vars

----------------------------------------------------------------------------
(* Claims about extractTextFromDocument *)

\* name ends in ext, whatever the case of its letters
EndsInExtension(name, ext) ==
    /\ Len(name) >= Len(ext)
    /\ \A k \in 1..Len(ext) :
          toLowerCase(name[Len(name) - Len(ext) + k]) = toLowerCase(ext[k])

\* s contains sub, whatever the case of its letters
ContainsText(s, sub) ==
    \E i \in 0..(Len(s) - Len(sub)) :
        \A k \in 1..Len(sub) : toLowerCase(s[i + k]) = toLowerCase(sub[k])

\* the extension of name: from its last "." on, nothing when it has none
ExtensionOf(name) ==
    IF \E i \in 1..Len(name) : name[i] = "."
    THEN SubSeq(name, Max({i \in 1..Len(name) : name[i] = "."}), Len(name))
    ELSE <<>>

\* the call has been made: it is awaiting a reader or has settled
ParserCalled == docResult.type \notin {"pending", "idle"}

\* no reader has been invoked and the call has failed with an error that
\* says the file type is unsupported and names the extension of name
FailedAsUnsupported(name) ==
    /\ docReaders = <<>>
    /\ docResult.type = "throw"
    /\ ContainsText(docResult.error, Chars("unsupported file type"))
    /\ ContainsText(docResult.error, ExtensionOf(name))

\* C25: a file whose name ends, case-insensitively, in none of .pdf, .docx,
\* .doc, .txt invokes no reader and fails with an error whose message says
\* that the file type is unsupported and names the extension; names ending
\* in the four extensions go to the PDF, the Word, the Word and the
\* plain-text reader.
C25_UnsupportedFailsOthersRouted ==
    ParserCalled =>
        /\ (\A ext \in {".pdf", ".docx", ".doc", ".txt"} :
               ~EndsInExtension(docFile, Chars(ext))) => FailedAsUnsupported(docFile)
        /\ EndsInExtension(docFile, Chars(".pdf")) => docReaders = <<"extractTextFromPDF">>
        /\ EndsInExtension(docFile, Chars(".docx")) => docReaders = <<"extractTextFromWord">>
        /\ EndsInExtension(docFile, Chars(".doc")) => docReaders = <<"extractTextFromWord">>
        /\ EndsInExtension(docFile, Chars(".txt")) => docReaders = <<"extractTextFromTxt">>

\* "Clean Air.PNG" has failed without a reader, its error naming ".png"
C25_Witness ==
    /\ docFile = Chars("Clean Air.PNG")
    /\ docReaders = <<>>
    /\ docResult = Throw(Chars("Failed to extract text: Unsupported file type: clean air.png"))

\* a legacy .DOC file has gone to the Word reader, which failed
C25_LegacyReached ==
    /\ docFile = Chars("a.DOC")
    /\ docReaders = <<"extractTextFromWord">>
    /\ docResult.type = "throw"
    /\ ContainsText(docResult.error, Chars("Legacy .doc format"))

----------------------------------------------------------------------------
(* The Clean Air example of the Pattern Extractor *)

\* s begins with prefix
StartsWith(s, prefix) == Len(s) >= Len(prefix) /\ SubSeq(s, 1, Len(prefix)) = prefix

\* the string of comma-separated fragments has one that begins with prefix
HasFragment(s, prefix) ==
    \E k \in 1..Len(Entries(s)) : StartsWith(Entries(s)[k], prefix)

\* extractFallback has returned for the Clean Air text and "clean-air.txt"
CleanAirCase ==
    /\ fnServer.type = "object"
    /\ fnText.chars = CleanAirText
    /\ fnFilename = JsString(Chars("clean-air.txt"))

\* C26 as stated: for the Clean Air text and "clean-air.txt" the year is
\* "2030", the title begins with "THE CLEAN AIR ACT", and the agencies have
\* a fragment that starts with "Ministry of Environment".
C26_TitleFromFirstLine ==
    CleanAirCase =>
        /\ ServerField("legislationYear") = Chars("2030")
        /\ StartsWith(ServerField("legislationTitle"), Chars("THE CLEAN AIR ACT"))
        /\ HasFragment(ServerField("implementingAgencies"), Chars("Ministry of Environment"))

\* C26 amended: for the Clean Air text and "clean-air.txt" the year is
\* "2030", the title is the filename-derived "Clean Air", and the agencies
\* have a fragment that starts with "Ministry of Environment".
C26_TitleFromFilename ==
    CleanAirCase =>
        /\ ServerField("legislationYear") = Chars("2030")
        /\ ServerField("legislationTitle") = Chars("Clean Air")
        /\ HasFragment(ServerField("implementingAgencies"), Chars("Ministry of Environment"))

\* the Clean Air example has been extracted
C26_Witness ==
    /\ CleanAirCase
    /\ ServerField("legislationYear") = Chars("2030")
    /\ ServerField("implementingAgencies") =
          Chars("Ministry of Environment shall enforce this Act.")

----------------------------------------------------------------------------
(* Claims about the document uploaded in the chat *)

\* the step is the one in which handleChatFileUpload, its file read, sends
\* the X-Ray Scan request
UploadSends ==
    /\ Len(chatUploads') < Len(chatUploads)
    /\ Len(chatRequests') = Len(chatRequests) + 1

\* C27: the request handleChatFileUpload sends carries the document just
\* read: its documentText is the text extracted from the uploaded file, and
\* its messages are the whole transcript at the time of sending plus the new
\* user message.
C27_ScanCarriesDocument ==
    [][UploadSends =>
          /\ chatRequests'[Len(chatRequests')].documentText = chatDocumentText'
          /\ chatRequests'[Len(chatRequests')].messages = chatMessages']_vars

\* the messages of the request alone: the whole transcript plus the new
\* user message
C27_ScanCarriesTranscript ==
    [][UploadSends => chatRequests'[Len(chatRequests')].messages = chatMessages']_vars

\* the X-Ray Scan request of the first document uploaded is outstanding
\* with an empty documentText, while chatDocumentText holds the document
C27_StaleDocumentReached ==
    /\ Len(chatRequests) = 1
    /\ chatDocumentText = JsString(CleanAirText)
    /\ chatRequests[1].documentText = JsString(<<>>)
    /\ chatRequests[1].messages[Len(chatRequests[1].messages)].content =
          UploadMessage([name |-> "clean-air.txt"])

----------------------------------------------------------------------------
(* Claims about extraction and the file that is uploaded *)

\* the extraction that ends in this step was started on the file that is
\* uploaded when it ends
EndsOnUploadedFile ==
    (ExtractionEnds /\ extractionComplete') =>
        \E i \in 1..Len(extractions) :
            /\ extractions' = Remove(extractions, i)
            /\ extractions[i].file = uploadedFile'

\* C28: whenever extractionComplete is true a file is uploaded, and the
\* extraction whose result was applied had been started on that file, under
\* every interleaving with clearUpload and handleFileUpload.
C28_CompleteBelongsToUpload ==
    /\ [](extractionComplete => uploadedFile # JsNull)
    /\ [][EndsOnUploadedFile]_vars

\* an extraction has been applied after its file was removed: it is shown
\* as complete, and no file is uploaded
C28_AppliedAfterClearReached ==
    /\ extractionComplete
    /\ uploadedFile = JsNull
    /\ context # InitialContext

\* an extraction of clean-air.txt has been applied after the file was
\* replaced by note.txt
C28_AppliedAfterReplaceReached ==
    /\ extractionComplete
    /\ uploadedFile # JsNull
    /\ uploadedFile.name = "note.txt"
    /\ context.legislationTitle = JsString(Chars("Clean Air"))

----------------------------------------------------------------------------
(* Claims about the extraction status flags *)

\* isExtracting and extractionComplete are not both true
NotExtractingAndComplete == ~(isExtracting /\ extractionComplete)

\* extractionComplete is not true while extractionError is set
NotCompleteWithError == ~(extractionComplete /\ extractionError # JsNull)

\* C29: in every reachable state of the wizard isExtracting and
\* extractionComplete are not both true, and extractionComplete is not true
\* while extractionError is non-null.
C29_StatusFlagsConsistent ==
    /\ NotExtractingAndComplete
    /\ NotCompleteWithError

\* the first half of C29 alone, which holds
C29_NeverExtractingAndComplete ==
    /\ NotExtractingAndComplete
    /\ (isExtracting <=> extractions # <<>>)

\* "Extraction Complete!" and the error of a rejected file are both shown
C29_CompleteWithErrorReached ==
    /\ extractionComplete
    /\ extractionError = JsString(Chars("Please upload a PDF, Word document, or text file"))
    /\ uploadedFile = JsNull

\* an extraction has completed while another one could have been started:
\* the case the first half of C29 is about
C29_CompleteAfterFlightReached ==
    /\ extractionComplete
    /\ ~isExtracting
    /\ uploadedFile # JsNull
    /\ extractionMethod = JsString(Chars("ai"))

----------------------------------------------------------------------------
(* Claims about the paths of an extraction *)

\* the text read for extraction x has at least 50 characters after trimming
LongEnough(x) ==
    /\ IsString(x.text)
    /\ Len(trim(x.text.chars)) >= MinTextLength

\* what the client copy of the extractor returns for extraction x
ClientResult(x) == extractLegislationFallback(x.text, JsString(Chars(x.file.name)))

\* what the backend can answer the request of extraction x with
ServerResults(x) == BackendOutcomes(extractFallback(x.text, JsString(Chars(x.file.name))))

\* this step merges extractedData d into context and monitoring
Applied(d) ==
    /\ context' = MergeContext(context, d)
    /\ monitoring' = IF Falsy(Field(d, "reviewClauses")) THEN monitoring
                     ELSE [monitoring EXCEPT !.reviewClauses = d.reviewClauses]

\* this step applies the result of the client extractor as 'fallback'
UsedClient(x) ==
    /\ extractionMethod' = JsString(Chars("fallback"))
    /\ Applied(ClientResult(x).fields)

\* this step applies an answer of the backend under the method it names
UsedBackend(x, methods) ==
    \E result \in ServerResults(x) :
        /\ result.type # "throw"
        /\ result.fields._method \in methods
        /\ extractionMethod' = result.fields._method
        /\ Applied(result.fields)

\* a step that ends extraction i of a long enough text ends it as complete,
\* by the path its server status and its backend allow; errorAfter is what
\* it requires of extractionError
LongEnoughEnds(i, x, errorAfter) ==
    (LongEnough(x) /\ extractions' = Remove(extractions, i)) =>
        /\ extractionComplete'
        /\ errorAfter
        /\ x.step \in {"backend", "delay"}
        /\ ~x.serverOk => x.step = "delay" /\ UsedClient(x)
        /\ x.serverOk =>
              UsedClient(x) \/ UsedBackend(x, {JsString(Chars("ai")), JsString(Chars("fallback"))})
        /\ extractionMethod' = JsString(Chars("ai")) => UsedBackend(x, {JsString(Chars("ai"))})

\* the backend is being called only for an extraction that saw the server
\* status 'ok', and that status is 'ok' still
CalledOnlyWhenOk ==
    \A i \in 1..Len(extractions) :
        extractions[i].step = "backend" =>
            /\ extractions[i].serverOk
            /\ serverStatus.status = "ok"

\* C30: an extraction of a text of at least 50 characters after trimming
\* ends with extractionComplete true and extractionError null whatever the
\* backend answers: without server status 'ok' the backend is not called,
\* after a rejected call the client extractor is used, in both cases with
\* extractionMethod 'fallback'; extractionMethod is 'ai' only for a backend
\* answer of method 'ai'.
C30_LongEnoughTextCompletes ==
    /\ []CalledOnlyWhenOk
    /\ [][\A i \in 1..Len(extractions) :
             LongEnoughEnds(i, extractions[i], extractionError' = JsNull)]_vars

\* C30 but for the error: the step that ends the extraction leaves
\* extractionError as it was, which is null unless a file was rejected
\* while the extraction ran
C30_HoldsButForStaleError ==
    /\ []CalledOnlyWhenOk
    /\ [][\A i \in 1..Len(extractions) :
             LongEnoughEnds(i, extractions[i], extractionError' = extractionError)]_vars

\* the backend call of an extraction of clean-air.txt was rejected, and the
\* extraction is complete by the client extractor, without an error
C30_ClientAfterRejectionReached ==
    /\ serverStatus.status = "ok"
    /\ uploadedFile # JsNull
    /\ uploadedFile.name = "clean-air.txt"
    /\ extractionComplete
    /\ extractionError = JsNull
    /\ extractionMethod = JsString(Chars("fallback"))
    /\ context.legislationTitle = JsString(Chars("Clean Air"))

\* an extraction of clean-air.txt is complete while the error of a file
\* rejected during it is set
C30_CompleteWithStaleErrorReached ==
    /\ extractionComplete
    /\ extractionError # JsNull
    /\ extractionMethod = JsString(Chars("ai"))
    /\ context.legislationTitle = JsString(Chars("Clean Air Act"))

====
